---- MODULE Spec2Model ----
(***************************************************************************)
(* Gesture / voice robot control: the gesture classifier                   *)
(* (gesture_recognition/gesture_classifier.py), the action mapper          *)
(* (gesture_recognition/action_mapper.py) and the stabilizer of the main   *)
(* control loop (main_control_app.py).                                     *)
(*                                                                         *)
(* Coordinates are integers in hundredths of the normalized image unit     *)
(* (x = 37 stands for 0.37).  Comparisons that the code makes on floats    *)
(* are made here in exact arithmetic: the hand scale reference is a square *)
(* root, so it is carried as its square, and  a > c * (s / 0.15)  is       *)
(* decided as  a > 0 /\ (15a)^2 > c^2 * s^2.                               *)
(*                                                                         *)
(* Specifications:                                                         *)
(*   SpecClassify  one call of GestureClassifier.classify                  *)
(*   SpecMapper    ActionMapper: construction, then get_command calls      *)
(*   Spec          MainApplication.run: the control loop, frame by frame   *)
(*   SpecCalls     the control loop with the classify call of each frame   *)
(*                 as a step of its own                                    *)
(*   SpecSender    CommandSender: send calls as time passes                *)
(*   SpecThreads   the control-loop thread and the voice listener thread,  *)
(*                 one step per read or write of a shared field            *)
(*   SpecHandle    handle_incoming_command called directly                 *)
(*   SpecTTS       TTSManager: speak and stop calls and the worker threads *)
(*   SpecSuppress  the two threads together with the TTSManager            *)
(*   SpecListen    VoiceCommandProcessor: start_listening and              *)
(*                 stop_listening calls and the listener threads           *)
(***************************************************************************)
EXTENDS Integers, Sequences, FiniteSets, TLC

VARIABLES
    \* ---- GestureClassifier.classify: one call -------------------------
    hand_landmarks,      \* argument: 21 points, or <<>> when there is none
    handedness_str,      \* argument: the handedness label
    gesture_key,         \* the returned symbol ("PENDING" before the call)
    call_log,            \* history: the calls made so far, each with its
                         \* arguments, its result and the stabilizer fields
                         \* at the time of the call
    \* ---- ActionMapper ------------------------------------------------
    config_source,       \* what is found at config_path (environment)
    mapper_state,        \* "unbuilt", "built" or "failed" (__init__ raised)
    gesture_actions,     \* ActionMapper.gesture_actions
    lookup_key,          \* argument of the last get_command call
    lookup_result,       \* its outcome: [raised, value]
    \* ---- MainApplication ---------------------------------------------
    loop_pc,             \* run(): "loop", "exited" (left the while loop) or
                         \* "raised" (an exception left the loop body)
    current_potential_gesture_key,
    gesture_stability_count,
    last_confirmed_gesture_key,
    last_dispatched_robot_command,
    last_announced_command_for_tts,
    is_tts_active_for_vcp_suppression,
    suppress_recognition, \* VoiceCommandProcessor.suppress_recognition
    tts_phrases,         \* commands that have a phrase in tts_phrases.json
    frame_log,           \* history: current_gesture of every frame so far
    confirm_log,         \* history: <<frame, key, get_command outcome>>
    \* ---- CommandSender -----------------------------------------------
    last_sent_command,
    last_sent_time,      \* in tenths of a second, as is now
    now,                 \* what time.time() returns
    sent_log,            \* history: the datagrams handed to the socket
    \* ---- threads of MainApplication ----------------------------------
    thread_pc,           \* per thread: the line it is about to execute
    hic_command,         \* per thread: the local variable command of
                         \* handle_incoming_command
    hic_arg,             \* history: the argument of the thread's call
    hic_calls,           \* history: handle_incoming_command calls made
    frame_confirmed,     \* history: the current frame confirmed a gesture
    speak_log,           \* history: commands whose phrase was handed to
                         \* tts_manager.speak
    \* ---- TTSManager --------------------------------------------------
    tts_queue,           \* self.queue
    processing_thread_is_active,
    stop_thread_event,
    tts_workers,         \* every thread started on _process_queue_say, in
                         \* order: [pc, phrase]; speak_thread is the last
    current_speak_process, \* 0 (None) or the worker whose process it is
    last_spoken_phrase,
    stop_pc,             \* stop(): "idle" or the line it is about to run
    tts_appended,        \* history: phrases appended to the queue
    tts_said,            \* history: phrases handed to `say`
    tts_stops,           \* history: stop() calls made
    \* ---- VoiceCommandProcessor: start and stop of the listener --------
    is_listening,        \* VoiceCommandProcessor.is_listening
    listen_threads,      \* the threads created at line 170, oldest first,
                         \* each by its position; listen_thread is the last
    vcp_pc,              \* the caller of start_listening / stop_listening
    start_returns        \* history: start_listening calls that reached
                         \* line 169

classifier_vars == <<hand_landmarks, handedness_str, gesture_key, call_log>>
mapper_vars == <<config_source, mapper_state, gesture_actions, lookup_key,
                 lookup_result>>
app_vars == <<loop_pc, current_potential_gesture_key,
              gesture_stability_count, last_confirmed_gesture_key,
              last_dispatched_robot_command, last_announced_command_for_tts,
              is_tts_active_for_vcp_suppression, suppress_recognition,
              tts_phrases, frame_log, confirm_log>>
sender_vars == <<last_sent_command, last_sent_time, now, sent_log>>
thread_vars == <<thread_pc, hic_command, hic_arg, hic_calls, frame_confirmed,
                 speak_log>>
tts_vars == <<tts_queue, processing_thread_is_active, stop_thread_event,
              tts_workers, current_speak_process, last_spoken_phrase,
              stop_pc, tts_appended, tts_said, tts_stops>>
vcp_vars == <<is_listening, listen_threads, vcp_pc, start_returns>>
vars == <<classifier_vars, mapper_vars, app_vars, sender_vars, thread_vars,
          tts_vars, vcp_vars>>

(***************************************************************************)
(* MediaPipe hand landmark indices (mp.solutions.hands.HandLandmark).      *)
(***************************************************************************)
WRIST == 0
THUMB_CMC == 1
THUMB_MCP == 2
THUMB_IP == 3
THUMB_TIP == 4
INDEX_FINGER_MCP == 5
INDEX_FINGER_PIP == 6
INDEX_FINGER_DIP == 7
INDEX_FINGER_TIP == 8
MIDDLE_FINGER_MCP == 9
MIDDLE_FINGER_PIP == 10
MIDDLE_FINGER_DIP == 11
MIDDLE_FINGER_TIP == 12
RING_FINGER_MCP == 13
RING_FINGER_PIP == 14
RING_FINGER_DIP == 15
RING_FINGER_TIP == 16
PINKY_MCP == 17
PINKY_PIP == 18
PINKY_DIP == 19
PINKY_TIP == 20

\* tip_ids, pip_ids, mcp_ids of _count_fingers_up_robust and classify,
\* indexed 0..4 = thumb, index, middle, ring, pinky as in the code
tip_ids == [i \in 0..4 |-> 4 * i + 4]
pip_ids == [i \in 0..4 |-> IF i = 0 THEN THUMB_IP ELSE 4 * i + 2]
mcp_ids == [i \in 0..4 |-> IF i = 0 THEN THUMB_MCP ELSE 4 * i + 1]

(***************************************************************************)
(* Thresholds of GestureClassifier.__init__ and classify, in hundredths.   *)
(***************************************************************************)
FINGER_UP_Y_THRESHOLD_STRICT == 2
FINGER_UP_Y_THRESHOLD_LOOSE == 0
THUMB_X_OUTWARDS_MCP_THRESHOLD_RIGHT == -2
THUMB_X_OUTWARDS_MCP_THRESHOLD_LEFT == 2
THUMB_UP_Y_VS_MCP_THRESHOLD == 3
POINTING_OTHER_FINGERS_DOWN_Y_THRESHOLD == 2
THUMBS_UP_CURL_THRESHOLD == 1
OPEN_PALM_MIN_SPREAD == 3
POINT_UP_TUCK_DIST == 10
PEACE_TUCK_DIST == 12
SCALE_DEFAULT == 15          \* the 0.15 returned for a degenerate distance
SCALE_MIN_DIST == 1          \* the 0.01 below which the distance is dropped
SCALE_NORM == 15             \* the 0.15 every threshold is divided by

X(p) == p[1]
Y(p) == p[2]
Z(p) == p[3]

Abs(n) == IF n < 0 THEN -n ELSE n

\* _calculate_distance(p1, p2), squared: sum((p1 - p2)**2) over x, y, z
calculate_distance2(p1, p2) ==
    (X(p1) - X(p2)) * (X(p1) - X(p2)) + (Y(p1) - Y(p2)) * (Y(p1) - Y(p2))
      + (Z(p1) - Z(p2)) * (Z(p1) - Z(p2))

\* a scale reference without the substitution of the default
get_wrist_to_middle_mcp_dist2_raw(lm_array) ==
    calculate_distance2(lm_array[WRIST], lm_array[MIDDLE_FINGER_MCP])

\* a scale reference that keeps a distance of exactly 0.01
get_wrist_to_middle_mcp_dist2_inclusive(lm_array) ==
    LET dist2 == calculate_distance2(lm_array[WRIST],
                                     lm_array[MIDDLE_FINGER_MCP])
    IN  IF dist2 >= SCALE_MIN_DIST * SCALE_MIN_DIST
        THEN dist2
        ELSE SCALE_DEFAULT * SCALE_DEFAULT

\* _get_wrist_to_middle_mcp_dist(lm_array), squared:
\*   dist if dist > 0.01 else 0.15
get_wrist_to_middle_mcp_dist2(lm_array) ==
    LET dist2 == calculate_distance2(lm_array[WRIST],
                                     lm_array[MIDDLE_FINGER_MCP])
    IN  IF dist2 > SCALE_MIN_DIST * SCALE_MIN_DIST
        THEN dist2
        ELSE SCALE_DEFAULT * SCALE_DEFAULT

\* a > c * (hand_scale_ref / 0.15)   for a threshold c >= 0
ExceedsScaled(a, c, scale2) ==
    /\ a > 0
    /\ (SCALE_NORM * a) * (SCALE_NORM * a) > c * c * scale2

\* sqrt(d2) < c * (hand_scale_ref / 0.15)   for a threshold c >= 0
DistBelowScaled(d2, c, scale2) ==
    SCALE_NORM * SCALE_NORM * d2 < c * c * scale2

\* a thumb flag that looks to the same side for both hands
thumb_is_up_same_side(lm_array, hand, scale2) ==
    /\ hand \in {"Left", "Right"}
    /\ ExceedsScaled(Y(lm_array[THUMB_MCP]) - Y(lm_array[THUMB_TIP]),
                     THUMB_UP_Y_VS_MCP_THRESHOLD, scale2)
    /\ ExceedsScaled(X(lm_array[THUMB_MCP]) - X(lm_array[THUMB_TIP]),
                     -THUMB_X_OUTWARDS_MCP_THRESHOLD_RIGHT, scale2)

\* a thumb flag that needs no side when the hand is not labelled
thumb_is_up_unlabelled(lm_array, hand, scale2) ==
    /\ ExceedsScaled(Y(lm_array[THUMB_MCP]) - Y(lm_array[THUMB_TIP]),
                     THUMB_UP_Y_VS_MCP_THRESHOLD, scale2)
    /\ IF hand = "Right"
       THEN ExceedsScaled(X(lm_array[THUMB_MCP]) - X(lm_array[THUMB_TIP]),
                          -THUMB_X_OUTWARDS_MCP_THRESHOLD_RIGHT, scale2)
       ELSE IF hand = "Left"
       THEN ExceedsScaled(X(lm_array[THUMB_TIP]) - X(lm_array[THUMB_MCP]),
                          THUMB_X_OUTWARDS_MCP_THRESHOLD_LEFT, scale2)
       ELSE TRUE

\* thumb flag of _count_fingers_up_robust (lines 70-91)
thumb_is_up(lm_array, hand, scale2) ==
    LET thumb_tip == lm_array[tip_ids[0]]
        thumb_mcp == lm_array[mcp_ids[0]]
        is_thumb_tip_above_mcp ==
            ExceedsScaled(Y(thumb_mcp) - Y(thumb_tip),
                          THUMB_UP_Y_VS_MCP_THRESHOLD, scale2)
        is_thumb_x_outwards_from_mcp ==
            IF hand = "Right"
            THEN ExceedsScaled(X(thumb_mcp) - X(thumb_tip),
                               -THUMB_X_OUTWARDS_MCP_THRESHOLD_RIGHT, scale2)
            ELSE IF hand = "Left"
            THEN ExceedsScaled(X(thumb_tip) - X(thumb_mcp),
                               THUMB_X_OUTWARDS_MCP_THRESHOLD_LEFT, scale2)
            ELSE FALSE
    IN  is_thumb_tip_above_mcp /\ is_thumb_x_outwards_from_mcp

\* a finger flag set by the strict test alone
finger_is_up_strict_only(lm_array, i, scale2) ==
    ExceedsScaled(Y(lm_array[pip_ids[i]]) - Y(lm_array[tip_ids[i]]),
                  FINGER_UP_Y_THRESHOLD_STRICT, scale2)

\* flag of finger i in 1..4 of _count_fingers_up_robust (lines 97-107)
finger_is_up(lm_array, i, scale2) ==
    LET finger_tip_y == Y(lm_array[tip_ids[i]])
        finger_pip_y == Y(lm_array[pip_ids[i]])
        finger_mcp_y == Y(lm_array[mcp_ids[i]])
        cond1_extended ==
            ExceedsScaled(finger_pip_y - finger_tip_y,
                          FINGER_UP_Y_THRESHOLD_STRICT, scale2)
        cond2_generally_up ==
            /\ ExceedsScaled(finger_mcp_y - finger_tip_y,
                             FINGER_UP_Y_THRESHOLD_LOOSE, scale2)
            /\ ExceedsScaled(finger_mcp_y - finger_pip_y,
                             FINGER_UP_Y_THRESHOLD_LOOSE, scale2)
    IN  cond1_extended \/ cond2_generally_up

\* _count_fingers_up_robust: fingers_up_status (total_fingers is its sum)
count_fingers_up_robust(lm_array, hand, scale2) ==
    [i \in 0..4 |->
        IF i = 0
        THEN (IF thumb_is_up(lm_array, hand, scale2) THEN 1 ELSE 0)
        ELSE (IF finger_is_up(lm_array, i, scale2) THEN 1 ELSE 0)]

total_fingers_of(fingers_status) ==
    fingers_status[0] + fingers_status[1] + fingers_status[2]
      + fingers_status[3] + fingers_status[4]

\* tip Y > PIP Y + c * (hand_scale_ref / 0.15) for finger i
tip_below_pip(lm_array, i, c, scale2) ==
    ExceedsScaled(Y(lm_array[tip_ids[i]]) - Y(lm_array[pip_ids[i]]), c, scale2)

(***************************************************************************)
(* The rules of classify.  Each *_rule is the condition under which the    *)
(* block of that name assigns gesture_key; each *_block is the block, a    *)
(* function of the gesture_key it is entered with.                         *)
(***************************************************************************)

\* lines 133-142: thumb up by count, the other four tips below their PIP
thumbs_up_rule(lm_array, fingers_status, scale2) ==
    /\ fingers_status[0] = 1
    /\ fingers_status[1] + fingers_status[2] + fingers_status[3]
         + fingers_status[4] = 0
    /\ \A i \in 1..4 :
         tip_below_pip(lm_array, i, THUMBS_UP_CURL_THRESHOLD, scale2)

\* the directional thumb design of other revisions of classify
thumbs_up_key_directional(hand) ==
    IF hand = "Right" THEN "THUMB_POINTING_RIGHT"
    ELSE IF hand = "Left" THEN "THUMB_POINTING_LEFT"
    ELSE "THUMB_UP"

\* lines 144-146
thumbs_up_key(hand) ==
    IF hand = "Right" THEN "THUMB_UP_RIGHT"
    ELSE IF hand = "Left" THEN "THUMB_UP_LEFT"
    ELSE "THUMB_UP"

\* lines 133-146 (this block does not test gesture_key)
thumbs_up_block(key, lm_array, hand, fingers_status, scale2) ==
    IF thumbs_up_rule(lm_array, fingers_status, scale2)
    THEN thumbs_up_key(hand)
    ELSE key

\* an open palm rule that asks for the spread of five fingers too
open_palm_rule_spread_required(lm_array, fingers_status, scale2) ==
    LET total_fingers == total_fingers_of(fingers_status)
        dist_index_middle ==
            Abs(X(lm_array[tip_ids[1]]) - X(lm_array[tip_ids[2]]))
        dist_middle_ring ==
            Abs(X(lm_array[tip_ids[2]]) - X(lm_array[tip_ids[3]]))
    IN  /\ total_fingers >= 4
        /\ ExceedsScaled(dist_index_middle, OPEN_PALM_MIN_SPREAD, scale2)
        /\ ExceedsScaled(dist_middle_ring, OPEN_PALM_MIN_SPREAD, scale2)

\* lines 149-153 without the gesture_key test
open_palm_rule(lm_array, fingers_status, scale2) ==
    LET total_fingers == total_fingers_of(fingers_status)
        index_tip == lm_array[tip_ids[1]]
        middle_tip == lm_array[tip_ids[2]]
        ring_tip == lm_array[tip_ids[3]]
        dist_index_middle == Abs(X(index_tip) - X(middle_tip))
        dist_middle_ring == Abs(X(middle_tip) - X(ring_tip))
        is_spread ==
            /\ ExceedsScaled(dist_index_middle, OPEN_PALM_MIN_SPREAD, scale2)
            /\ ExceedsScaled(dist_middle_ring, OPEN_PALM_MIN_SPREAD, scale2)
    IN  /\ total_fingers >= 4
        /\ total_fingers = 5 \/ (total_fingers >= 4 /\ is_spread)

open_palm_block(key, lm_array, fingers_status, scale2) ==
    IF key = "UNKNOWN_GESTURE" /\ open_palm_rule(lm_array, fingers_status, scale2)
    THEN "OPEN_PALM"
    ELSE key

\* a point up rule that measures the thumb whether it is flagged up or not
point_up_rule_tuck_always(lm_array, fingers_status, scale2) ==
    /\ \/ fingers_status = [i \in 0..4 |-> IF i = 1 THEN 1 ELSE 0]
       \/ /\ fingers_status[0] = 1
          /\ fingers_status[1] = 1
          /\ fingers_status[2] + fingers_status[3] + fingers_status[4] = 0
    /\ \A i \in 2..4 :
         tip_below_pip(lm_array, i, POINTING_OTHER_FINGERS_DOWN_Y_THRESHOLD,
                       scale2)
    /\ DistBelowScaled(calculate_distance2(lm_array[tip_ids[0]],
                                           lm_array[mcp_ids[1]]),
                       POINT_UP_TUCK_DIST, scale2)

\* a point-up rule that tests the thumb against the peace distance
point_up_rule_peace_dist(lm_array, fingers_status, scale2) ==
    /\ \/ fingers_status = [i \in 0..4 |-> IF i = 1 THEN 1 ELSE 0]
       \/ /\ fingers_status[0] = 1
          /\ fingers_status[1] = 1
          /\ fingers_status[2] + fingers_status[3] + fingers_status[4] = 0
    /\ \A i \in 2..4 :
         tip_below_pip(lm_array, i, POINTING_OTHER_FINGERS_DOWN_Y_THRESHOLD,
                       scale2)
    /\ fingers_status[0] = 1 =>
         DistBelowScaled(calculate_distance2(lm_array[tip_ids[0]],
                                             lm_array[mcp_ids[1]]),
                         PEACE_TUCK_DIST, scale2)

\* lines 184-196 without the gesture_key test
point_up_rule(lm_array, fingers_status, scale2) ==
    LET middle_down == tip_below_pip(lm_array, 2,
                           POINTING_OTHER_FINGERS_DOWN_Y_THRESHOLD, scale2)
        ring_down == tip_below_pip(lm_array, 3,
                           POINTING_OTHER_FINGERS_DOWN_Y_THRESHOLD, scale2)
        pinky_down == tip_below_pip(lm_array, 4,
                           POINTING_OTHER_FINGERS_DOWN_Y_THRESHOLD, scale2)
        dist_thumb_index_mcp2 ==
            calculate_distance2(lm_array[tip_ids[0]], lm_array[mcp_ids[1]])
        thumb_tucked_for_point ==
            IF fingers_status[0] = 1 /\ fingers_status[1] = 1
            THEN DistBelowScaled(dist_thumb_index_mcp2, POINT_UP_TUCK_DIST,
                                 scale2)
            ELSE TRUE
    IN  /\ \/ fingers_status = [i \in 0..4 |-> IF i = 1 THEN 1 ELSE 0]
           \/ /\ fingers_status[0] = 1
              /\ fingers_status[1] = 1
              /\ fingers_status[2] + fingers_status[3] + fingers_status[4] = 0
        /\ middle_down /\ ring_down /\ pinky_down /\ thumb_tucked_for_point

point_up_block(key, lm_array, fingers_status, scale2) ==
    IF key = "UNKNOWN_GESTURE" /\ point_up_rule(lm_array, fingers_status, scale2)
    THEN "POINT_UP"
    ELSE key

\* a peace rule that does not look at the thumb
peace_rule_no_tuck(lm_array, fingers_status, scale2) ==
    /\ \/ fingers_status = [i \in 0..4 |-> IF i \in {1, 2} THEN 1 ELSE 0]
       \/ /\ fingers_status[0] = 1
          /\ fingers_status[1] = 1
          /\ fingers_status[2] = 1
          /\ fingers_status[3] + fingers_status[4] = 0
    /\ \A i \in 3..4 :
         tip_below_pip(lm_array, i, POINTING_OTHER_FINGERS_DOWN_Y_THRESHOLD,
                       scale2)

\* lines 199-210 without the gesture_key test
peace_rule(lm_array, fingers_status, scale2) ==
    LET ring_down == tip_below_pip(lm_array, 3,
                           POINTING_OTHER_FINGERS_DOWN_Y_THRESHOLD, scale2)
        pinky_down == tip_below_pip(lm_array, 4,
                           POINTING_OTHER_FINGERS_DOWN_Y_THRESHOLD, scale2)
        dist_thumb_index_mcp2 ==
            calculate_distance2(lm_array[tip_ids[0]], lm_array[mcp_ids[1]])
        thumb_tucked_for_peace ==
            IF fingers_status[0] = 1 /\ fingers_status[1] = 1
                 /\ fingers_status[2] = 1
            THEN DistBelowScaled(dist_thumb_index_mcp2, PEACE_TUCK_DIST, scale2)
            ELSE TRUE
    IN  /\ \/ fingers_status = [i \in 0..4 |-> IF i \in {1, 2} THEN 1 ELSE 0]
           \/ /\ fingers_status[0] = 1
              /\ fingers_status[1] = 1
              /\ fingers_status[2] = 1
              /\ fingers_status[3] + fingers_status[4] = 0
        /\ ring_down /\ pinky_down /\ thumb_tucked_for_peace

\* a peace block that resets the key when its rule does not match
peace_block_resetting(key, lm_array, fingers_status, scale2) ==
    IF peace_rule(lm_array, fingers_status, scale2)
    THEN "PEACE"
    ELSE "UNKNOWN_GESTURE"

peace_block(key, lm_array, fingers_status, scale2) ==
    IF key = "UNKNOWN_GESTURE" /\ peace_rule(lm_array, fingers_status, scale2)
    THEN "PEACE"
    ELSE key

NoLandmarks == <<>>

\* `not hand_landmarks` (line 120)
landmarks_absent(lms) == DOMAIN lms = {}

\* a classify whose early return also fires on an unlabelled hand
classify_no_hand_on_unknown_handedness(lms, hand) ==
    IF landmarks_absent(lms) \/ hand \notin {"Left", "Right"}
    THEN "NO_HAND"
    ELSE LET scale2 == get_wrist_to_middle_mcp_dist2(lms)
             fs == count_fingers_up_robust(lms, hand, scale2)
         IN  peace_block(point_up_block(open_palm_block(
                 thumbs_up_block("UNKNOWN_GESTURE", lms, hand, fs, scale2),
                 lms, fs, scale2), lms, fs, scale2), lms, fs, scale2)

\* GestureClassifier.classify(hand_landmarks, handedness_str)
classify(lms, hand) ==
    IF landmarks_absent(lms)
    THEN "NO_HAND"
    ELSE LET hand_scale_ref2 == get_wrist_to_middle_mcp_dist2(lms)
             fingers_status ==
                 count_fingers_up_robust(lms, hand, hand_scale_ref2)
             k0 == "UNKNOWN_GESTURE"
             k1 == thumbs_up_block(k0, lms, hand, fingers_status,
                                   hand_scale_ref2)
             k2 == open_palm_block(k1, lms, fingers_status, hand_scale_ref2)
             k3 == point_up_block(k2, lms, fingers_status, hand_scale_ref2)
             k4 == peace_block(k3, lms, fingers_status, hand_scale_ref2)
         IN  k4


(***************************************************************************)
(* ActionMapper.  A JSON value is [type, items]: items is the key -> value *)
(* function of an object and is empty for every other type.  The source at *)
(* config_path is [kind, json]:                                            *)
(*   absent        open() raises FileNotFoundError                         *)
(*   invalid_json  json.load raises json.JSONDecodeError                   *)
(*   undecodable   the bytes are not text in the default encoding:         *)
(*                 f.read() inside json.load raises UnicodeDecodeError     *)
(*   json          json.load returns the value held by the file            *)
(***************************************************************************)
EmptyItems == [k \in {} |-> "none"]
NoJson == [type |-> "none", items |-> EmptyItems]
NoResult == [raised |-> FALSE, value |-> "none"]

JsonObject(items) == [type |-> "object", items |-> items]
NonObjectJson ==
    { [type |-> t, items |-> EmptyItems] :
        t \in {"array", "string", "number", "null"} }

\* the mapping returned by both except branches of _load_config
FallbackActions == JsonObject([k \in {"FALLBACK_ACTION"} |-> "STOP"])

\* a _load_config whose except branches return an empty mapping
load_config_empty_fallback(source) ==
    CASE source.kind = "absent" ->
             [raised |-> FALSE, actions |-> JsonObject(EmptyItems)]
      [] source.kind = "invalid_json" ->
             [raised |-> FALSE, actions |-> JsonObject(EmptyItems)]
      [] source.kind = "undecodable" ->
             [raised |-> TRUE, actions |-> NoJson]
      [] OTHER -> [raised |-> FALSE, actions |-> source.json]

\* ActionMapper._load_config: FileNotFoundError and json.JSONDecodeError
\* are caught, every other exception leaves the function
load_config(source) ==
    CASE source.kind = "absent" ->
             [raised |-> FALSE, actions |-> FallbackActions]
      [] source.kind = "invalid_json" ->
             [raised |-> FALSE, actions |-> FallbackActions]
      [] source.kind = "undecodable" ->
             [raised |-> TRUE, actions |-> NoJson]
      [] OTHER -> [raised |-> FALSE, actions |-> source.json]

\* a get_command that returns the key itself for an unknown key
get_command_echo(actions, gesture_key_arg) ==
    IF actions.type # "object"
    THEN [raised |-> TRUE, value |-> "AttributeError"]
    ELSE IF gesture_key_arg \in DOMAIN actions.items
    THEN [raised |-> FALSE, value |-> actions.items[gesture_key_arg]]
    ELSE [raised |-> FALSE, value |-> gesture_key_arg]

\* ActionMapper.get_command: self.gesture_actions.get(key, "UNKNOWN_COMMAND");
\* only a dict has .get, on any other value the attribute lookup raises
get_command(actions, gesture_key_arg) ==
    IF actions.type # "object"
    THEN [raised |-> TRUE, value |-> "AttributeError"]
    ELSE IF gesture_key_arg \in DOMAIN actions.items
    THEN [raised |-> FALSE, value |-> actions.items[gesture_key_arg]]
    ELSE [raised |-> FALSE, value |-> "UNKNOWN_COMMAND"]

(***************************************************************************)
(* Inputs of classify: a family of 21-point landmark sets.  The knuckles   *)
(* (MCP joints) are fixed; the wrist height sets the scale reference, and  *)
(* each finger takes one of a few (PIP y, tip y) shapes.                   *)
(***************************************************************************)
Handedness == {"Left", "Right", "Unknown"}

\* wrist y; the middle MCP is at (50, 50, 0): distances 0, 0.01, 0.02,
\* 0.15 and 0.30
WristYs == {50, 51, 52, 65, 80}

\* (PIP y, tip y) of a finger whose MCP y is 50
ShapeExtended == <<44, 38>>     \* tip well above PIP, PIP above MCP
ShapeTipOverPip == <<52, 49>>   \* tip above a PIP that is below the MCP
ShapeRaised == <<48, 49>>       \* tip and PIP above MCP, tip not above PIP
ShapeCurled == <<52, 58>>       \* tip far below PIP
ShapeHalfCurled == <<52, 55>>   \* tip 0.03 below PIP
ShapeLimp == <<52, 53>>         \* tip 0.01 below PIP
IndexShapes == {ShapeExtended, ShapeTipOverPip, ShapeRaised, ShapeCurled,
                ShapeHalfCurled, ShapeLimp}
MiddleShapes == {ShapeExtended, ShapeRaised, ShapeCurled, ShapeHalfCurled,
                 ShapeLimp}
RingShapes == {ShapeExtended, ShapeCurled, ShapeHalfCurled}
PinkyShapes == {ShapeExtended, ShapeCurled, ShapeLimp}

\* thumb tip (x, y, z); the thumb MCP is at (40, 55, 0), the index MCP at
\* (44, 50, 0)
ThumbTips == {<<30, 45, 0>>,    \* up, outward for a Right hand, far
              <<50, 45, 0>>,    \* up, outward for a Left hand
              <<40, 45, 0>>,    \* up, not outward
              <<30, 56, 0>>,    \* below its MCP
              <<36, 50, 0>>,    \* up and outward (Right), 0.08 from index MCP
              <<36, 50, 8>>}    \* same in x and y, 0.113 from index MCP

\* x of the index, middle and ring tips
Spreads == {<<40, 50, 60>>, <<45, 50, 55>>, <<48, 50, 52>>}

MakeHand(wrist_y, thumb_tip, index, middle, ring, pinky, spread) ==
    [j \in 0..20 |->
        CASE j = WRIST -> <<50, wrist_y, 0>>
          [] j = THUMB_CMC -> <<44, 60, 0>>
          [] j = THUMB_MCP -> <<40, 55, 0>>
          [] j = THUMB_IP -> <<(40 + thumb_tip[1]) \div 2,
                               (55 + thumb_tip[2]) \div 2, 0>>
          [] j = THUMB_TIP -> thumb_tip
          [] j = INDEX_FINGER_MCP -> <<44, 50, 0>>
          [] j = INDEX_FINGER_PIP -> <<44, index[1], 0>>
          [] j = INDEX_FINGER_DIP -> <<44, (index[1] + index[2]) \div 2, 0>>
          [] j = INDEX_FINGER_TIP -> <<spread[1], index[2], 0>>
          [] j = MIDDLE_FINGER_MCP -> <<50, 50, 0>>
          [] j = MIDDLE_FINGER_PIP -> <<50, middle[1], 0>>
          [] j = MIDDLE_FINGER_DIP -> <<50, (middle[1] + middle[2]) \div 2, 0>>
          [] j = MIDDLE_FINGER_TIP -> <<spread[2], middle[2], 0>>
          [] j = RING_FINGER_MCP -> <<56, 50, 0>>
          [] j = RING_FINGER_PIP -> <<56, ring[1], 0>>
          [] j = RING_FINGER_DIP -> <<56, (ring[1] + ring[2]) \div 2, 0>>
          [] j = RING_FINGER_TIP -> <<spread[3], ring[2], 0>>
          [] j = PINKY_MCP -> <<62, 50, 0>>
          [] j = PINKY_PIP -> <<62, pinky[1], 0>>
          [] j = PINKY_DIP -> <<62, (pinky[1] + pinky[2]) \div 2, 0>>
          [] OTHER -> <<62, pinky[2], 0>>]

LandmarkSets ==
    { MakeHand(w, t, i, m, r, p, sp) :
        w \in WristYs, t \in ThumbTips, i \in IndexShapes, m \in MiddleShapes,
        r \in RingShapes, p \in PinkyShapes, sp \in Spreads }

(***************************************************************************)
(* One call of classify: Init draws the arguments, Classify applies the    *)
(* function.                                                               *)
(***************************************************************************)
IdleMapper ==
    /\ config_source = [kind |-> "absent", json |-> NoJson]
    /\ mapper_state = "unbuilt"
    /\ gesture_actions = NoJson
    /\ lookup_key = "none"
    /\ lookup_result = NoResult

\* Python's None
None == "<None>"

\* time.time() at the start, in tenths of a second: any moment later than
\* send_interval after the epoch
StartTime == 10

\* the state after CommandSender.__init__
IdleSender ==
    /\ last_sent_command = None
    /\ last_sent_time = 0
    /\ now = StartTime
    /\ sent_log = <<>>

\* the state after TTSManager.__init__
IdleTTS ==
    /\ tts_queue = <<>>
    /\ processing_thread_is_active = FALSE
    /\ stop_thread_event = FALSE
    /\ tts_workers = <<>>
    /\ current_speak_process = 0
    /\ last_spoken_phrase = None
    /\ stop_pc = "idle"
    /\ tts_appended = <<>>
    /\ tts_said = <<>>
    /\ tts_stops = 0

\* the state after VoiceCommandProcessor.__init__
IdleListen ==
    /\ is_listening = FALSE
    /\ listen_threads = <<>>
    /\ vcp_pc = "idle"
    /\ start_returns = 0

\* the state after start_listening has started the listener
Listening ==
    /\ is_listening = TRUE
    /\ listen_threads = <<"listen">>
    /\ vcp_pc = "idle"
    /\ start_returns = 1

\* the thread of run() and the thread of _listen_and_process
Threads == {"loop", "listener"}

\* neither thread has touched handle_incoming_command
IdleThreads ==
    /\ thread_pc = [t \in Threads |-> IF t = "loop" THEN "frame" ELSE "listen"]
    /\ hic_command = [t \in Threads |-> None]
    /\ hic_arg = [t \in Threads |-> None]
    /\ hic_calls = 0
    /\ frame_confirmed = FALSE
    /\ speak_log = <<>>

IdleApp ==
    /\ loop_pc = "exited"
    /\ current_potential_gesture_key = "NO_HAND"
    /\ gesture_stability_count = 0
    /\ last_confirmed_gesture_key = "NO_HAND"
    /\ last_dispatched_robot_command = "STOP"
    /\ last_announced_command_for_tts = "INIT_TTS"
    /\ is_tts_active_for_vcp_suppression = FALSE
    /\ suppress_recognition = FALSE
    /\ tts_phrases = {}
    /\ frame_log = <<>>
    /\ confirm_log = <<>>

IdleClassifier ==
    /\ hand_landmarks = NoLandmarks
    /\ handedness_str = "none"
    /\ gesture_key = "PENDING"
    /\ call_log = <<>>

InitClassify ==
    /\ hand_landmarks \in LandmarkSets \cup {NoLandmarks}
    /\ handedness_str \in Handedness
    /\ gesture_key = "PENDING"
    /\ call_log = <<>>
    /\ IdleMapper
    /\ IdleApp
    /\ IdleSender
    /\ IdleThreads
    /\ IdleTTS
    /\ IdleListen

Classify ==
    /\ gesture_key = "PENDING"
    /\ gesture_key' = classify(hand_landmarks, handedness_str)
    /\ UNCHANGED <<hand_landmarks, handedness_str, call_log, mapper_vars,
                   app_vars, sender_vars, thread_vars,
                   tts_vars, vcp_vars>>

NextClassify == Classify

SpecClassify == InitClassify /\ [][NextClassify]_vars


(***************************************************************************)
(* Properties of classify (checked under SpecClassify).                    *)
(***************************************************************************)
Returned == gesture_key # "PENDING"

\* C7: classify returns NO_HAND if and only if no landmark set is present,
\* whatever the handedness argument is.
C7_NoHandIffAbsent ==
    Returned => (gesture_key = "NO_HAND" <=> hand_landmarks = NoLandmarks)

C7_Witness ==
    /\ gesture_key = "NO_HAND"
    /\ hand_landmarks = NoLandmarks
    /\ handedness_str = "Right"

GestureSymbols ==
    {"NO_HAND", "UNKNOWN_GESTURE", "OPEN_PALM", "POINT_UP", "PEACE",
     "THUMB_UP", "THUMB_UP_LEFT", "THUMB_UP_RIGHT"}

FirstMatch(lms, hand) ==
    LET scale2 == get_wrist_to_middle_mcp_dist2(lms)
        fs == count_fingers_up_robust(lms, hand, scale2)
    IN  IF thumbs_up_rule(lms, fs, scale2) THEN
            (IF hand = "Right" THEN "THUMB_UP_RIGHT"
             ELSE IF hand = "Left" THEN "THUMB_UP_LEFT" ELSE "THUMB_UP")
        ELSE IF open_palm_rule(lms, fs, scale2) THEN "OPEN_PALM"
        ELSE IF point_up_rule(lms, fs, scale2) THEN "POINT_UP"
        ELSE IF peace_rule(lms, fs, scale2) THEN "PEACE"
        ELSE "UNKNOWN_GESTURE"

\* C9: with a hand present the result is that of the first matching rule in
\* the order thumb, open palm, point up, peace (no later rule overwrites
\* it), and it is UNKNOWN_GESTURE exactly when no rule matches.
C9_FirstMatchWins ==
    (Returned /\ hand_landmarks # NoLandmarks) =>
        gesture_key = FirstMatch(hand_landmarks, handedness_str)

C9_Witness ==
    /\ gesture_key = "THUMB_UP_LEFT"
    /\ hand_landmarks # NoLandmarks
    /\ LET scale2 == get_wrist_to_middle_mcp_dist2(hand_landmarks)
           fs == count_fingers_up_robust(hand_landmarks, handedness_str, scale2)
       IN  /\ thumbs_up_rule(hand_landmarks, fs, scale2)
           /\ ~ peace_rule(hand_landmarks, fs, scale2)

\* only the thumb is flagged up and the four other tips lie below their PIP
\* by more than 0.01 * (scale_ref / 0.15)
ThumbOnlyAndCurled(lms, hand) ==
    LET scale2 == get_wrist_to_middle_mcp_dist2(lms)
    IN  /\ thumb_is_up(lms, hand, scale2)
        /\ \A i \in 1..4 : ~ finger_is_up(lms, i, scale2)
        /\ \A i \in 1..4 :
             ExceedsScaled(Y(lms[tip_ids[i]]) - Y(lms[pip_ids[i]]), 1, scale2)

ReturnedForSomeInput(key) ==
    \E lms \in LandmarkSets : \E hand \in Handedness :
        classify(lms, hand) = key

ThumbUpReturnedForSomeInput == ReturnedForSomeInput("THUMB_UP")
ThumbUpLeftReturnedForSomeInput == ReturnedForSomeInput("THUMB_UP_LEFT")
ThumbUpRightReturnedForSomeInput == ReturnedForSomeInput("THUMB_UP_RIGHT")

\* C10: with only the thumb flagged up and the other four tips below their
\* PIP by more than the scaled 0.01, classify returns THUMB_UP_RIGHT for a
\* Right hand, THUMB_UP_LEFT for a Left hand and THUMB_UP for any other
\* handedness, and each of the three symbols is returned for some input.
C10_ThumbGesture ==
    /\ (Returned /\ hand_landmarks # NoLandmarks
          /\ ThumbOnlyAndCurled(hand_landmarks, handedness_str)) =>
         gesture_key = (IF handedness_str = "Right" THEN "THUMB_UP_RIGHT"
                        ELSE IF handedness_str = "Left" THEN "THUMB_UP_LEFT"
                        ELSE "THUMB_UP")
    /\ ThumbUpRightReturnedForSomeInput
    /\ ThumbUpLeftReturnedForSomeInput
    /\ ThumbUpReturnedForSomeInput

\* the scale reference and the flags classify works with on its arguments
ScaleOfInput == get_wrist_to_middle_mcp_dist2(hand_landmarks)
FlagsOfInput ==
    count_fingers_up_robust(hand_landmarks, handedness_str, ScaleOfInput)
TotalOfInput == total_fingers_of(FlagsOfInput)
HandClassified == Returned /\ hand_landmarks # NoLandmarks

\* |index_tip.x - middle_tip.x| and |middle_tip.x - ring_tip.x| both exceed
\* 0.03 * (scale_ref / 0.15)
ClearlySeparated ==
    /\ ExceedsScaled(Abs(X(hand_landmarks[INDEX_FINGER_TIP])
                           - X(hand_landmarks[MIDDLE_FINGER_TIP])),
                     3, ScaleOfInput)
    /\ ExceedsScaled(Abs(X(hand_landmarks[MIDDLE_FINGER_TIP])
                           - X(hand_landmarks[RING_FINGER_TIP])),
                     3, ScaleOfInput)

\* C11: with at least 4 fingers flagged up and clearly separated fingertips
\* classify returns OPEN_PALM; with all 5 flagged up it returns OPEN_PALM
\* whatever the spread; with exactly 4 flagged up and not clearly separated
\* fingertips it does not return OPEN_PALM.
C11_OpenPalm ==
    HandClassified =>
        /\ (TotalOfInput >= 4 /\ ClearlySeparated) => gesture_key = "OPEN_PALM"
        /\ TotalOfInput = 5 => gesture_key = "OPEN_PALM"
        /\ (TotalOfInput = 4 /\ ~ ClearlySeparated) =>
              gesture_key # "OPEN_PALM"

C11_Witness ==
    /\ HandClassified
    /\ TotalOfInput = 5
    /\ ~ ClearlySeparated
    /\ gesture_key = "OPEN_PALM"

\* finger i has its tip below its PIP by more than 0.02 * (scale_ref / 0.15)
CurledInInput(i) ==
    ExceedsScaled(Y(hand_landmarks[tip_ids[i]]) - Y(hand_landmarks[pip_ids[i]]),
                  2, ScaleOfInput)

ThumbTipToIndexMcp2 ==
    calculate_distance2(hand_landmarks[THUMB_TIP],
                        hand_landmarks[INDEX_FINGER_MCP])

\* C12: when the index finger is the only finger flagged up and the middle,
\* ring and pinky tips are below their PIP by more than the scaled 0.02,
\* classify returns POINT_UP.
C12_PointUp ==
    (HandClassified
       /\ FlagsOfInput = [i \in 0..4 |-> IF i = 1 THEN 1 ELSE 0]
       /\ CurledInInput(2) /\ CurledInInput(3) /\ CurledInInput(4)) =>
        gesture_key = "POINT_UP"

\* POINT_UP for a hand whose unflagged thumb is far from the index MCP
C12_Witness ==
    /\ HandClassified
    /\ FlagsOfInput = [i \in 0..4 |-> IF i = 1 THEN 1 ELSE 0]
    /\ ~ DistBelowScaled(ThumbTipToIndexMcp2, 10, ScaleOfInput)
    /\ gesture_key = "POINT_UP"

IndexMiddleUpRingPinkyCurled ==
    /\ FlagsOfInput[1] = 1 /\ FlagsOfInput[2] = 1
    /\ FlagsOfInput[3] = 0 /\ FlagsOfInput[4] = 0
    /\ CurledInInput(3) /\ CurledInInput(4)

\* C13 as stated: with index and middle flagged up and ring and pinky
\* flagged down and curled, classify returns PEACE whatever the thumb does.
C13_PeaceWhateverThumb ==
    (HandClassified /\ IndexMiddleUpRingPinkyCurled) =>
        gesture_key = "PEACE"

\* the thumb is flagged up and its tip is not within 0.12 * (scale_ref /
\* 0.15) of the index MCP
ThumbUpAndAway ==
    /\ FlagsOfInput[0] = 1
    /\ ~ DistBelowScaled(ThumbTipToIndexMcp2, 12, ScaleOfInput)

\* C13 amended: with index and middle flagged up and ring and pinky flagged
\* down and curled, classify returns PEACE when the thumb is flagged down
\* or its tip is within the scaled 0.12 of the index MCP, and
\* UNKNOWN_GESTURE when the thumb is flagged up and farther away.
C13_PeaceUnlessThumbAway ==
    (HandClassified /\ IndexMiddleUpRingPinkyCurled) =>
        gesture_key = (IF ThumbUpAndAway THEN "UNKNOWN_GESTURE" ELSE "PEACE")

C13_Witness ==
    /\ HandClassified
    /\ IndexMiddleUpRingPinkyCurled
    /\ ThumbUpAndAway
    /\ gesture_key = "UNKNOWN_GESTURE"

\* scale factors k = k[1] / k[2] of the interval [0.5, 2.0]
ScaleFactors == {<<1, 2>>, <<2, 1>>, <<3, 2>>}

\* the landmark set with x and y scaled by k about the wrist (z is kept)
scale_about_wrist(lms, k) ==
    [j \in DOMAIN lms |->
        <<X(lms[WRIST]) + ((X(lms[j]) - X(lms[WRIST])) * k[1]) \div k[2],
          Y(lms[WRIST]) + ((Y(lms[j]) - Y(lms[WRIST])) * k[1]) \div k[2],
          Z(lms[j])>>]

\* the scaled coordinates are whole hundredths and lie in the image
ScalesInImage(lms, k) ==
    \A j \in DOMAIN lms :
        /\ ((X(lms[j]) - X(lms[WRIST])) * k[1]) % k[2] = 0
        /\ ((Y(lms[j]) - Y(lms[WRIST])) * k[1]) % k[2] = 0
        /\ X(scale_about_wrist(lms, k)[j]) \in 0..100
        /\ Y(scale_about_wrist(lms, k)[j]) \in 0..100

\* C14: scaling the x and y of every landmark about the wrist by a factor
\* of [0.5, 2.0] does not change the result of classify for the same
\* handedness.
C14_ScaleInvariant ==
    HandClassified =>
        \A k \in ScaleFactors :
            ScalesInImage(hand_landmarks, k) =>
                classify(scale_about_wrist(hand_landmarks, k), handedness_str)
                    = gesture_key

\* the landmark set mirrored in x, the other hand, the swapped symbol
mirror_x(lms) == [j \in DOMAIN lms |-> <<100 - X(lms[j]), Y(lms[j]), Z(lms[j])>>]
flip(hand) == IF hand = "Left" THEN "Right" ELSE "Left"
swap_thumb_symbols(key) ==
    IF key = "THUMB_UP_LEFT" THEN "THUMB_UP_RIGHT"
    ELSE IF key = "THUMB_UP_RIGHT" THEN "THUMB_UP_LEFT"
    ELSE key

\* C15: for a Left or Right hand, classifying the landmark set mirrored in
\* x as the other hand gives the same symbol with THUMB_UP_LEFT and
\* THUMB_UP_RIGHT swapped.
C15_Mirroring ==
    (HandClassified /\ handedness_str \in {"Left", "Right"}) =>
        classify(mirror_x(hand_landmarks), flip(handedness_str))
            = swap_thumb_symbols(gesture_key)

C15_Witness ==
    /\ HandClassified
    /\ handedness_str = "Right"
    /\ gesture_key = "THUMB_UP_RIGHT"
    /\ classify(mirror_x(hand_landmarks), "Left") = "THUMB_UP_LEFT"

\* the squared distance of the wrist to the middle MCP of the argument
RawDist2OfInput ==
    calculate_distance2(hand_landmarks[WRIST],
                        hand_landmarks[MIDDLE_FINGER_MCP])

\* C17 as stated: the scale reference classify works with is >= 0.15 for
\* every landmark set.
C17_ScaleAtLeastFloor ==
    HandClassified => ScaleOfInput >= 15 * 15

\* C17 amended: the scale reference is > 0.01 for every landmark set; it
\* is below 0.15 exactly when the raw distance lies strictly between 0.01
\* and 0.15, and it is then the raw distance.
C17_ScaleAboveMinimum ==
    HandClassified =>
        /\ ScaleOfInput > 1 * 1
        /\ ScaleOfInput < 15 * 15 =>
              (RawDist2OfInput < 15 * 15 /\ ScaleOfInput = RawDist2OfInput)
        /\ (RawDist2OfInput > 1 * 1 /\ RawDist2OfInput < 15 * 15) =>
              ScaleOfInput < 15 * 15

\* a hand 0.02 long from wrist to middle MCP: the scale reference is 0.02
C17_Witness ==
    /\ HandClassified
    /\ RawDist2OfInput = 2 * 2
    /\ ScaleOfInput = 2 * 2

\* C18: the scale reference is 0.15 whenever the raw distance is <= 0.01
\* and the raw distance otherwise, and it is never <= 0.01.
C18_ScaleReference ==
    HandClassified =>
        /\ RawDist2OfInput <= 1 * 1 => ScaleOfInput = 15 * 15
        /\ RawDist2OfInput > 1 * 1 => ScaleOfInput = RawDist2OfInput
        /\ ~ (ScaleOfInput <= 1 * 1)

\* a hand with the raw distance exactly 0.01
C18_Witness ==
    /\ HandClassified
    /\ RawDist2OfInput = 1 * 1
    /\ ScaleOfInput = 15 * 15

\* tip.y < pip.y - 0.02 * s  or  (tip.y < mcp.y and pip.y < mcp.y), with
\* s = scale_ref / 0.15, on the three joints of finger i alone:
\*   pip.y - tip.y > 0.02 * scale_ref / 0.15
\*     <=>  pip.y > tip.y  and  (15 * (pip.y - tip.y))^2 > 2^2 * scale_ref^2
FingerExtended(tip, pip) ==
    /\ Y(pip) > Y(tip)
    /\ 225 * (Y(pip) - Y(tip)) * (Y(pip) - Y(tip)) > 4 * ScaleOfInput
FingerRaised(tip, pip, mcp) == Y(tip) < Y(mcp) /\ Y(pip) < Y(mcp)
FingerUpAsStated(i) ==
    LET tip == hand_landmarks[4 * i + 4]
        pip == hand_landmarks[4 * i + 2]
        mcp == hand_landmarks[4 * i + 1]
    IN  FingerExtended(tip, pip) \/ FingerRaised(tip, pip, mcp)

\* C19: each of index, middle, ring, pinky is flagged up iff its tip is
\* above its PIP by more than the scaled 0.02 or its tip and PIP are both
\* above its MCP, whatever the handedness; the total is the number of
\* flags set and lies in 0..5.
C19_FingerFlags ==
    HandClassified =>
        /\ \A i \in 1..4 : \A hand \in Handedness :
              (count_fingers_up_robust(hand_landmarks, hand, ScaleOfInput)[i]
                 = 1) <=> FingerUpAsStated(i)
        /\ \A i \in 0..4 : FlagsOfInput[i] \in {0, 1}
        /\ TotalOfInput = Cardinality({i \in 0..4 : FlagsOfInput[i] = 1})
        /\ TotalOfInput \in 0..5

\* index up by the first test alone, middle up by the second test alone
C19_Witness ==
    /\ HandClassified
    /\ FlagsOfInput[1] = 1 /\ FlagsOfInput[2] = 1
    /\ ~ FingerRaised(hand_landmarks[INDEX_FINGER_TIP],
                      hand_landmarks[INDEX_FINGER_PIP],
                      hand_landmarks[INDEX_FINGER_MCP])
    /\ ~ FingerExtended(hand_landmarks[MIDDLE_FINGER_TIP],
                        hand_landmarks[MIDDLE_FINGER_PIP])

\* d > c * scale_ref / 0.15 for a difference d and c hundredths
MoreThanScaled(d, c) == d > 0 /\ 225 * d * d > c * c * ScaleOfInput

ThumbAboveMcp ==
    MoreThanScaled(Y(hand_landmarks[THUMB_MCP]) - Y(hand_landmarks[THUMB_TIP]),
                   3)
ThumbOutward ==
    \/ /\ handedness_str = "Right"
       /\ MoreThanScaled(X(hand_landmarks[THUMB_MCP])
                           - X(hand_landmarks[THUMB_TIP]), 2)
    \/ /\ handedness_str = "Left"
       /\ MoreThanScaled(X(hand_landmarks[THUMB_TIP])
                           - X(hand_landmarks[THUMB_MCP]), 2)

\* C20: the thumb is flagged up iff its tip is above its MCP by more than
\* the scaled 0.03 and outward of its MCP by more than the scaled 0.02 (to
\* smaller x for a Right hand, to larger x for a Left hand); for any other
\* handedness it is never flagged up.
C20_ThumbFlag ==
    HandClassified =>
        /\ FlagsOfInput[0] = 1 <=> (ThumbAboveMcp /\ ThumbOutward)
        /\ handedness_str \notin {"Left", "Right"} => FlagsOfInput[0] = 0

\* an unlabelled hand with the thumb tip well above its MCP
C20_Witness ==
    /\ HandClassified
    /\ handedness_str = "Unknown"
    /\ ThumbAboveMcp
    /\ FlagsOfInput[0] = 0

\* C23: classify returns POINT_UP for a hand whose thumb is flagged up only
\* if the thumb tip is within 0.10 * (scale_ref / 0.15) of the index MCP,
\* and PEACE only if it is within 0.12 * (scale_ref / 0.15); with the thumb
\* flagged down the distance is not looked at: the other conditions of the
\* rule alone give POINT_UP or PEACE.
C23_ThumbTuckGate ==
    HandClassified =>
        /\ (gesture_key = "POINT_UP" /\ FlagsOfInput[0] = 1) =>
              DistBelowScaled(ThumbTipToIndexMcp2, POINT_UP_TUCK_DIST,
                              ScaleOfInput)
        /\ (gesture_key = "PEACE" /\ FlagsOfInput[0] = 1) =>
              DistBelowScaled(ThumbTipToIndexMcp2, PEACE_TUCK_DIST,
                              ScaleOfInput)
        /\ (FlagsOfInput = [i \in 0..4 |-> IF i = 1 THEN 1 ELSE 0]
              /\ \A i \in 2..4 : CurledInInput(i)) =>
              gesture_key = "POINT_UP"
        /\ (FlagsOfInput[0] = 0 /\ IndexMiddleUpRingPinkyCurled) =>
              gesture_key = "PEACE"

\* POINT_UP for a hand whose thumb is flagged up and tucked
C23_Witness ==
    /\ HandClassified
    /\ gesture_key = "POINT_UP"
    /\ FlagsOfInput[0] = 1
    /\ DistBelowScaled(ThumbTipToIndexMcp2, POINT_UP_TUCK_DIST, ScaleOfInput)


(***************************************************************************)
(* The ActionMapper alone: Init draws the configuration source, Construct  *)
(* is __init__, GetCommand is one get_command call.                        *)
(***************************************************************************)
MapperKeys == {"OPEN_PALM", "NO_HAND", "FALLBACK_ACTION"}
MapperCommands == {"STOP", "GO_FORWARD"}
LookupKeys == MapperKeys \cup {"NOT_A_REAL_KEY", "UNKNOWN_GESTURE"}

ObjectItems ==
    UNION { [ks -> MapperCommands] : ks \in SUBSET MapperKeys }

ConfigSources ==
    { [kind |-> k, json |-> NoJson] :
        k \in {"absent", "invalid_json", "undecodable"} }
    \cup { [kind |-> "json", json |-> j] :
             j \in NonObjectJson \cup { JsonObject(f) : f \in ObjectItems } }

InitMapper ==
    /\ config_source \in ConfigSources
    /\ mapper_state = "unbuilt"
    /\ gesture_actions = NoJson
    /\ lookup_key = "none"
    /\ lookup_result = NoResult
    /\ IdleClassifier
    /\ IdleApp
    /\ IdleSender
    /\ IdleThreads
    /\ IdleTTS
    /\ IdleListen

\* ActionMapper.__init__
Construct ==
    /\ mapper_state = "unbuilt"
    /\ LET loaded == load_config(config_source)
       IN  /\ mapper_state' = IF loaded.raised THEN "failed" ELSE "built"
           /\ gesture_actions' = loaded.actions
    /\ UNCHANGED <<config_source, lookup_key, lookup_result, classifier_vars,
                   app_vars, sender_vars, thread_vars,
                   tts_vars, vcp_vars>>

GetCommand(k) ==
    /\ mapper_state = "built"
    /\ lookup_key' = k
    /\ lookup_result' = get_command(gesture_actions, k)
    /\ UNCHANGED <<config_source, mapper_state, gesture_actions,
                   classifier_vars, app_vars, sender_vars, thread_vars,
                   tts_vars, vcp_vars>>

NextMapper ==
    \/ Construct
    \/ \E k \in LookupKeys : GetCommand(k)

SpecMapper == InitMapper /\ [][NextMapper]_vars

Looked == lookup_key # "none"

\* C5: whatever the load of the configuration source gave, get_command(k)
\* returns the configured value when k is a key of the active mapping and
\* UNKNOWN_COMMAND otherwise, and never raises.
C5_GetCommandTotal ==
    Looked =>
        /\ ~ lookup_result.raised
        /\ lookup_result.value =
             (IF lookup_key \in DOMAIN gesture_actions.items
              THEN gesture_actions.items[lookup_key]
              ELSE "UNKNOWN_COMMAND")

MissingOrMalformed ==
    config_source.kind \in {"absent", "invalid_json", "undecodable"}

\* C6: with a missing or malformed configuration source construction does
\* not fail, the active mapping is exactly {FALLBACK_ACTION: STOP}, and
\* get_command("FALLBACK_ACTION") returns STOP.
C6_FallbackOnBadSource ==
    (MissingOrMalformed /\ mapper_state # "unbuilt") =>
        /\ mapper_state = "built"
        /\ gesture_actions = FallbackActions
        /\ lookup_key = "FALLBACK_ACTION" =>
             lookup_result = [raised |-> FALSE, value |-> "STOP"]


(***************************************************************************)
(* MainApplication: the control loop of run().                             *)
(***************************************************************************)
GESTURE_CONFIRM_FRAMES == 3
ENABLE_TTS == TRUE
ENABLE_VOICE_COMMANDS == TRUE

MaxFrames == 6      \* frames the loop is followed for

\* a line 107 that lets UNKNOWN_COMMAND through
is_ignored_command_none_only(command) == command = None

\* handle_incoming_command, line 107: the commands dropped at once
is_ignored_command(command) ==
    command = None \/ command = "UNKNOWN_COMMAND"

\* MainApplication.handle_incoming_command(command, source_type) on the
\* fields st = [dispatched, announced, tts_active, suppress], run without
\* another thread in between
handle_incoming_command(command, source_type, st) ==
    IF is_ignored_command(command) THEN st
    ELSE IF ~ (command # st.dispatched \/ source_type = "voice") THEN st
    ELSE LET cmd == IF command = "NO_ACTION"
                    THEN (IF st.dispatched # "STOP" THEN "STOP"
                          ELSE "NO_ACTION")
                    ELSE command
         IN  IF cmd = "NO_ACTION" THEN st
             ELSE LET announce ==
                          ENABLE_TTS /\ (cmd # st.announced
                                           \/ source_type = "voice")
                      suppress_now ==
                          announce /\ cmd \in tts_phrases
                            /\ ENABLE_VOICE_COMMANDS
                  IN  [dispatched |-> cmd,
                       announced |-> IF announce THEN cmd ELSE st.announced,
                       tts_active |-> suppress_now \/ st.tts_active,
                       suppress |-> suppress_now \/ st.suppress]

\* run(), lines 163-165; busy is the answer of tts_manager.is_busy()
release_suppression(st, busy) ==
    IF ENABLE_TTS /\ ENABLE_VOICE_COMMANDS /\ st.tts_active /\ ~ busy
    THEN [st EXCEPT !.tts_active = FALSE, !.suppress = FALSE]
    ELSE st

\* a stabilizer update that confirms only above the threshold
stabilizer_confirms_strict(count, potential, confirmed) ==
    count > GESTURE_CONFIRM_FRAMES /\ confirmed # potential

\* a stabilizer that does not compare with the confirmed gesture
stabilizer_confirms_repeat(count, potential, confirmed) ==
    count >= GESTURE_CONFIRM_FRAMES

\* a stabilizer that never confirms the unknown gesture
stabilizer_confirms_known_only(count, potential, confirmed) ==
    /\ count >= GESTURE_CONFIRM_FRAMES
    /\ confirmed # potential
    /\ potential # "UNKNOWN_GESTURE"

\* a stabilizer that confirms again when the dispatched command is no
\* longer the one of the gesture shown
stabilizer_confirms_resync(count, potential, confirmed) ==
    /\ count >= GESTURE_CONFIRM_FRAMES
    /\ \/ confirmed # potential
       \/ last_dispatched_robot_command #
            get_command(gesture_actions, potential).value

\* run(), lines 157-158: the test made after the run-length update
stabilizer_confirms(count, potential, confirmed) ==
    count >= GESTURE_CONFIRM_FRAMES /\ confirmed # potential

\* a run-length update that keeps counting across a change of gesture
stabilizer_count_no_reset(count, potential, current_gesture) ==
    count + 1

\* a run-length update that restarts the count at zero
stabilizer_count_from_zero(count, potential, current_gesture) ==
    IF current_gesture = potential THEN count + 1 ELSE 0

\* run(), lines 154-155: the new gesture_stability_count
stabilizer_count(count, potential, current_gesture) ==
    IF current_gesture = potential THEN count + 1 ELSE 1

\* run(), lines 149-152; handedness is the label of handedness[0]
NoHandedness == "none"

\* a frame classification that ignores a missing handedness
current_gesture_ignoring_handedness(landmarks, handedness) ==
    IF landmarks # NoLandmarks
    THEN classify(landmarks,
                  IF handedness = NoHandedness THEN "Right" ELSE handedness)
    ELSE "NO_HAND"

current_gesture_of(landmarks, handedness) ==
    IF landmarks # NoLandmarks /\ handedness # NoHandedness
    THEN classify(landmarks, handedness)
    ELSE "NO_HAND"

\* hands shown to the camera
PoseThumbOut == <<30, 45, 0>>
PoseThumbIn == <<30, 56, 0>>
PoseWide == <<40, 50, 60>>
PoseOpenPalm == MakeHand(65, PoseThumbIn, ShapeExtended, ShapeExtended,
                         ShapeExtended, ShapeExtended, PoseWide)
PosePointUp == MakeHand(65, PoseThumbIn, ShapeExtended, ShapeCurled,
                        ShapeCurled, ShapeCurled, PoseWide)
PoseThumbRight == MakeHand(65, PoseThumbOut, ShapeCurled, ShapeCurled,
                           ShapeCurled, ShapeCurled, PoseWide)
\* the stabilizer only compares symbols, so three named gestures, the
\* unknown gesture (the thumb pose labelled Left) and NO_HAND are shown
FramePoses == {PoseOpenPalm, PosePointUp, PoseThumbRight}

\* gesture -> command configurations the loop is run with
SampleActions ==
    JsonObject([k \in {"OPEN_PALM", "POINT_UP", "PEACE", "THUMB_UP_LEFT",
                       "THUMB_UP_RIGHT", "NO_HAND"} |->
        CASE k = "OPEN_PALM" -> "STOP"
          [] k = "POINT_UP" -> "GO_FORWARD"
          [] k = "PEACE" -> "MOVE_BACKWARD"
          [] k = "THUMB_UP_LEFT" -> "TURN_LEFT"
          [] k = "THUMB_UP_RIGHT" -> "TURN_RIGHT"
          [] OTHER -> "NO_ACTION"])

LoopConfigSources ==
    {[kind |-> "absent", json |-> NoJson],
     [kind |-> "invalid_json", json |-> NoJson],
     [kind |-> "json", json |-> SampleActions]}

\* commands with a phrase in tts_phrases.json
SamplePhrases == {"STOP", "GO_FORWARD", "TURN_LEFT", "TURN_RIGHT"}

\* the state after MainApplication.__init__ and the entry of run()
Init ==
    /\ config_source \in LoopConfigSources
    /\ mapper_state = "built"
    /\ gesture_actions = load_config(config_source).actions
    /\ lookup_key = "none"
    /\ lookup_result = NoResult
    /\ loop_pc = "loop"
    /\ current_potential_gesture_key = "NO_HAND"
    /\ gesture_stability_count = 0
    /\ last_confirmed_gesture_key = "NO_HAND"
    /\ last_dispatched_robot_command = "STOP"
    /\ last_announced_command_for_tts = "INIT_TTS"
    /\ is_tts_active_for_vcp_suppression = FALSE
    /\ suppress_recognition = FALSE
    /\ tts_phrases = SamplePhrases
    /\ frame_log = <<>>
    /\ confirm_log = <<>>
    /\ IdleClassifier
    /\ IdleSender
    /\ IdleThreads
    /\ IdleTTS
    /\ IdleListen

\* what lines 145-152 can yield for the hands shown to the camera
FrameGestures ==
    { current_gesture_of(landmarks, handedness) :
        landmarks \in FramePoses \cup {NoLandmarks},
        handedness \in {"Left", "Right", NoHandedness} }

\* one iteration of the while loop of run(); current_gesture is the result
\* of lines 145-152 on the camera frame
Frame(current_gesture, busy) ==
    /\ loop_pc = "loop"
    /\ Len(frame_log) < MaxFrames
    /\ LET count == stabilizer_count(gesture_stability_count,
                                     current_potential_gesture_key,
                                     current_gesture)
           confirm == stabilizer_confirms(count, current_gesture,
                                          last_confirmed_gesture_key)
           cmd == get_command(gesture_actions, current_gesture)
           st0 == [dispatched |-> last_dispatched_robot_command,
                   announced |-> last_announced_command_for_tts,
                   tts_active |-> is_tts_active_for_vcp_suppression,
                   suppress |-> suppress_recognition]
           st1 == IF confirm
                  THEN handle_incoming_command(cmd.value, "gesture", st0)
                  ELSE st0
           st2 == release_suppression(st1, busy)
           st == IF confirm /\ cmd.raised THEN st0 ELSE st2
       IN  /\ current_potential_gesture_key' = current_gesture
           /\ gesture_stability_count' = count
           /\ frame_log' = Append(frame_log, current_gesture)
           /\ IF confirm
              THEN /\ last_confirmed_gesture_key' = current_gesture
                   /\ lookup_key' = current_gesture
                   /\ lookup_result' = cmd
                   /\ confirm_log' =
                        Append(confirm_log,
                               [frame |-> Len(frame_log) + 1,
                                key |-> current_gesture,
                                command |-> cmd])
                   /\ loop_pc' = IF cmd.raised THEN "raised" ELSE "loop"
              ELSE UNCHANGED <<last_confirmed_gesture_key, lookup_key,
                               lookup_result, confirm_log, loop_pc>>
           /\ last_dispatched_robot_command' = st.dispatched
           /\ last_announced_command_for_tts' = st.announced
           /\ is_tts_active_for_vcp_suppression' = st.tts_active
           /\ suppress_recognition' = st.suppress
    /\ UNCHANGED <<config_source, mapper_state, gesture_actions, tts_phrases,
                   classifier_vars, sender_vars, thread_vars,
                   tts_vars, vcp_vars>>

\* the loop is left: window closed, no camera frame, or 'q' pressed
ExitLoop ==
    /\ loop_pc = "loop"
    /\ loop_pc' = "exited"
    /\ UNCHANGED <<current_potential_gesture_key, gesture_stability_count,
                   last_confirmed_gesture_key, last_dispatched_robot_command,
                   last_announced_command_for_tts,
                   is_tts_active_for_vcp_suppression, suppress_recognition,
                   tts_phrases, frame_log, confirm_log, mapper_vars,
                   classifier_vars, sender_vars, thread_vars,
                   tts_vars, vcp_vars>>

Next ==
    \/ \E current_gesture \in FrameGestures :
         \E busy \in BOOLEAN : Frame(current_gesture, busy)
    \/ ExitLoop

Spec == Init /\ [][Next]_vars

(***************************************************************************)
(* The control loop with the call of classify (line 152) as a step of its  *)
(* own: ClassifyCall is the call on the hand found in the camera frame,    *)
(* FrameOnResult the rest of the iteration on its result, FrameWithoutHand *)
(* an iteration in which no hand was found and classify is not called.     *)
(***************************************************************************)
MaxCalls == 3       \* classify calls the loop is followed for

\* a classifier that keeps its last named gesture while it recognises none
classify_call_sticky(calls, lms, hand) ==
    IF calls # <<>> /\ classify(lms, hand) = "UNKNOWN_GESTURE"
    THEN calls[Len(calls)].result
    ELSE classify(lms, hand)

\* self.gesture_classifier.classify(landmarks[0], label) made after the
\* calls `calls`: no statement of classify or of its helpers reads or
\* assigns an attribute other than the thresholds set in __init__
classify_call(calls, lms, hand) == classify(lms, hand)

CallPending ==
    /\ call_log # <<>>
    /\ call_log[Len(call_log)].frame = Len(frame_log) + 1

ClassifyCall(lms, hand) ==
    /\ loop_pc = "loop"
    /\ Len(frame_log) < MaxFrames
    /\ Len(call_log) < MaxCalls
    /\ ~ CallPending
    /\ hand_landmarks' = lms
    /\ handedness_str' = hand
    /\ gesture_key' = classify_call(call_log, lms, hand)
    /\ call_log' =
         Append(call_log,
                [frame |-> Len(frame_log) + 1,
                 landmarks |-> lms,
                 handedness |-> hand,
                 result |-> gesture_key',
                 stabilizer |-> <<current_potential_gesture_key,
                                  gesture_stability_count,
                                  last_confirmed_gesture_key>>,
                 dispatched |-> last_dispatched_robot_command])
    /\ UNCHANGED <<mapper_vars, app_vars, sender_vars, thread_vars,
                   tts_vars, vcp_vars>>

FrameOnResult(busy) ==
    /\ CallPending
    /\ Frame(gesture_key, busy)

FrameWithoutHand(busy) ==
    /\ ~ CallPending
    /\ Frame("NO_HAND", busy)

NextCalls ==
    \/ \E lms \in FramePoses : \E hand \in {"Left", "Right"} :
         ClassifyCall(lms, hand)
    \/ \E busy \in BOOLEAN : FrameOnResult(busy)
    \/ \E busy \in BOOLEAN : FrameWithoutHand(busy)
    \/ ExitLoop

SpecCalls == Init /\ [][NextCalls]_vars

\* the call just made, and the earlier calls with the same arguments
LastCall == call_log'[Len(call_log')]
EarlierSameArguments ==
    { n \in 1..Len(call_log) :
        /\ call_log[n].landmarks = LastCall.landmarks
        /\ call_log[n].handedness = LastCall.handedness }

send_interval == 3

MaxSends == 3       \* datagrams the sender is followed for
MaxElapsed == 5     \* tenths of a second the clock is followed for

SenderCommands ==
    {"STOP", "GO_FORWARD", "TURN_LEFT", "NO_ACTION", "UNKNOWN_COMMAND"}

\* CommandSender.send, line 22-24: the test that lets a command through
send_due(command, current_time) ==
    \/ command # last_sent_command
    \/ current_time - last_sent_time > send_interval
    \/ command = "STOP"

\* CommandSender.send(command); delivered is FALSE when sock.sendto raises
\* (the exception is caught and nothing is recorded)
Send(command, delivered) ==
    /\ Len(sent_log) < MaxSends
    /\ LET current_time == now
       IN  IF /\ send_due(command, current_time)
              /\ command # "NO_ACTION" /\ command # "UNKNOWN_COMMAND"
              /\ delivered
           THEN /\ sent_log' = Append(sent_log, [command |-> command,
                                                 time |-> current_time])
                /\ last_sent_command' = command
                /\ last_sent_time' = current_time
           ELSE UNCHANGED <<sent_log, last_sent_command, last_sent_time>>
    /\ UNCHANGED <<now, classifier_vars, mapper_vars, app_vars, thread_vars,
                   tts_vars, vcp_vars>>

\* a tenth of a second passes between two calls
Tick ==
    /\ now < StartTime + MaxElapsed
    /\ now' = now + 1
    /\ UNCHANGED <<sent_log, last_sent_command, last_sent_time,
                   classifier_vars, mapper_vars, app_vars, thread_vars,
                   tts_vars, vcp_vars>>

InitSender ==
    /\ IdleSender
    /\ IdleClassifier
    /\ IdleMapper
    /\ IdleApp
    /\ IdleThreads
    /\ IdleTTS
    /\ IdleListen

NextSender ==
    \/ \E command \in SenderCommands : \E delivered \in BOOLEAN :
         Send(command, delivered)
    \/ Tick

SpecSender == InitSender /\ [][NextSender]_vars

\* C30: a datagram is transmitted only if the command differs from the
\* last transmitted command or more than send_interval has elapsed since
\* the last transmission: two consecutive transmissions of the same
\* command are more than send_interval apart.
C30_RateLimit ==
    \A n \in 1..(Len(sent_log) - 1) :
        sent_log[n + 1].command = sent_log[n].command =>
            sent_log[n + 1].time - sent_log[n].time > send_interval


(***************************************************************************)
(* The two threads that call handle_incoming_command: the thread of run()  *)
(* (source "gesture") and the thread of _listen_and_process (source        *)
(* "voice", the callback set at main_control_app.py lines 83-84).  The     *)
(* method takes no lock, so a thread can be preempted between any two      *)
(* reads or writes of a field of MainApplication; a step below holds one   *)
(* such read or write together with the local computation that follows.   *)
(* thread_pc names the line a thread is about to execute.                  *)
(***************************************************************************)
MaxHandle == 3      \* handle_incoming_command calls followed
MaxRun == 4         \* longest run of one gesture followed

\* what _parse_command can return as a command
VoiceCommands ==
    {"GO_FORWARD", "MOVE_BACKWARD", "TURN_LEFT", "TURN_RIGHT", "STOP"}

\* a configuration with a null entry and without an entry for the unknown
\* gesture
ThreadActions ==
    JsonObject([k \in {"OPEN_PALM", "POINT_UP", "THUMB_UP_RIGHT", "NO_HAND"} |->
        CASE k = "OPEN_PALM" -> "STOP"
          [] k = "POINT_UP" -> "GO_FORWARD"
          [] k = "THUMB_UP_RIGHT" -> None
          [] OTHER -> "NO_ACTION"])

source_type_of(t) == IF t = "loop" THEN "gesture" ELSE "voice"

\* where a thread continues after handle_incoming_command returns
ReturnPc(t) == IF t = "loop" THEN "l163" ELSE "listen"

CallPcs == {"l108", "l109", "l114", "l118", "l119", "l120", "l121", "l122"}

InCall(t) == thread_pc[t] \in CallPcs

\* line 108
passes_dedup(command, source_type, dispatched) ==
    command # dispatched \/ source_type = "voice"

\* a line 110 that leaves NO_ACTION in place
no_action_replacement_keep(dispatched) == "NO_ACTION"

\* line 110
no_action_replacement(dispatched) ==
    IF dispatched # "STOP" THEN "STOP" ELSE "NO_ACTION"

\* line 114 with a TTS manager present
wants_announcement(command, source_type, announced) ==
    ENABLE_TTS /\ (command # announced \/ source_type = "voice")

\* the fields of MainApplication that only the control loop touches
loop_fields == <<loop_pc, current_potential_gesture_key,
                 gesture_stability_count, last_confirmed_gesture_key,
                 lookup_key, lookup_result, frame_confirmed>>

\* the fields both threads read and write
shared_fields == <<last_dispatched_robot_command,
                   last_announced_command_for_tts,
                   is_tts_active_for_vcp_suppression, suppress_recognition>>

\* what no thread step changes (frame_log and confirm_log are histories of
\* Spec and are not kept here; the TTSManager is not followed: speak is
\* recorded in speak_log and the answer of is_busy is left open)
fixed_app_fields == <<classifier_vars, sender_vars, config_source,
                      mapper_state, gesture_actions, tts_phrases, frame_log,
                      confirm_log, vcp_vars>>

fixed_fields == <<fixed_app_fields, tts_vars>>

Goto(t, line) == thread_pc' = [thread_pc EXCEPT ![t] = line]

\* thread t calls handle_incoming_command(command, source_type_of(t)) and
\* executes line 107
EnterCall(t, command) ==
    /\ hic_calls' = hic_calls + 1
    /\ hic_arg' = [hic_arg EXCEPT ![t] = command]
    /\ hic_command' = [hic_command EXCEPT ![t] = command]
    /\ Goto(t, IF is_ignored_command(command) THEN ReturnPc(t) ELSE "l108")

\* line 108 reads last_dispatched_robot_command; for a command other than
\* NO_ACTION line 109 follows without touching a field
Line108(t) ==
    /\ thread_pc[t] = "l108"
    /\ Goto(t, IF ~ passes_dedup(hic_command[t], source_type_of(t),
                                 last_dispatched_robot_command)
               THEN ReturnPc(t)
               ELSE IF hic_command[t] = "NO_ACTION" THEN "l109"
               ELSE "l114")
    /\ UNCHANGED <<hic_command, hic_arg, hic_calls, speak_log, loop_fields,
                   shared_fields, fixed_fields>>

\* lines 109-111 for NO_ACTION: last_dispatched_robot_command is read again
Line109(t) ==
    /\ thread_pc[t] = "l109"
    /\ LET command == no_action_replacement(last_dispatched_robot_command)
       IN  /\ hic_command' = [hic_command EXCEPT ![t] = command]
           /\ Goto(t, IF command = "NO_ACTION" THEN ReturnPc(t) ELSE "l114")
    /\ UNCHANGED <<hic_arg, hic_calls, speak_log, loop_fields, shared_fields,
                   fixed_fields>>

\* lines 114-117: last_announced_command_for_tts is read, the phrase looked
\* up in the (never modified) tts_phrases
Line114(t) ==
    /\ thread_pc[t] = "l114"
    /\ Goto(t, IF ~ wants_announcement(hic_command[t], source_type_of(t),
                                       last_announced_command_for_tts)
               THEN "l122"
               ELSE IF hic_command[t] \notin tts_phrases THEN "l121"
               ELSE IF ENABLE_VOICE_COMMANDS THEN "l118"
               ELSE "l120")
    /\ UNCHANGED <<hic_command, hic_arg, hic_calls, speak_log, loop_fields,
                   shared_fields, fixed_fields>>

\* line 118: voice_command_processor.set_suppress(True)
Line118(t) ==
    /\ thread_pc[t] = "l118"
    /\ suppress_recognition' = TRUE
    /\ Goto(t, "l119")
    /\ UNCHANGED <<hic_command, hic_arg, hic_calls, speak_log, loop_fields,
                   last_dispatched_robot_command,
                   last_announced_command_for_tts,
                   is_tts_active_for_vcp_suppression, fixed_fields>>

\* line 119
Line119(t) ==
    /\ thread_pc[t] = "l119"
    /\ is_tts_active_for_vcp_suppression' = TRUE
    /\ Goto(t, "l120")
    /\ UNCHANGED <<hic_command, hic_arg, hic_calls, speak_log, loop_fields,
                   last_dispatched_robot_command,
                   last_announced_command_for_tts, suppress_recognition,
                   fixed_fields>>

\* line 120: tts_manager.speak(phrase)
Line120(t) ==
    /\ thread_pc[t] = "l120"
    /\ speak_log' = Append(speak_log, hic_command[t])
    /\ Goto(t, "l121")
    /\ UNCHANGED <<hic_command, hic_arg, hic_calls, loop_fields,
                   shared_fields, fixed_fields>>

\* line 121
Line121(t) ==
    /\ thread_pc[t] = "l121"
    /\ last_announced_command_for_tts' = hic_command[t]
    /\ Goto(t, "l122")
    /\ UNCHANGED <<hic_command, hic_arg, hic_calls, speak_log, loop_fields,
                   last_dispatched_robot_command,
                   is_tts_active_for_vcp_suppression, suppress_recognition,
                   fixed_fields>>

\* line 122, then the return
Line122(t) ==
    /\ thread_pc[t] = "l122"
    /\ last_dispatched_robot_command' = hic_command[t]
    /\ Goto(t, ReturnPc(t))
    /\ UNCHANGED <<hic_command, hic_arg, hic_calls, speak_log, loop_fields,
                   last_announced_command_for_tts,
                   is_tts_active_for_vcp_suppression, suppress_recognition,
                   fixed_fields>>

\* run(), lines 137-161 of one iteration: the stabilizer update and, on a
\* confirmation, get_command and the call of handle_incoming_command
FrameStart(current_gesture) ==
    /\ thread_pc["loop"] = "frame"
    /\ loop_pc = "loop"
    /\ LET count == stabilizer_count(gesture_stability_count,
                                     current_potential_gesture_key,
                                     current_gesture)
           confirm == stabilizer_confirms(count, current_gesture,
                                          last_confirmed_gesture_key)
           cmd == get_command(gesture_actions, current_gesture)
       IN  /\ count <= MaxRun
           /\ confirm => hic_calls < MaxHandle
           /\ current_potential_gesture_key' = current_gesture
           /\ gesture_stability_count' = count
           /\ frame_confirmed' = confirm
           /\ IF confirm
              THEN /\ last_confirmed_gesture_key' = current_gesture
                   /\ lookup_key' = current_gesture
                   /\ lookup_result' = cmd
                   /\ IF cmd.raised
                      THEN /\ loop_pc' = "raised"
                           /\ Goto("loop", "raised")
                           /\ UNCHANGED <<hic_command, hic_arg, hic_calls>>
                      ELSE /\ EnterCall("loop", cmd.value)
                           /\ UNCHANGED loop_pc
              ELSE /\ Goto("loop", "l163")
                   /\ UNCHANGED <<last_confirmed_gesture_key, lookup_key,
                                  lookup_result, loop_pc, hic_command,
                                  hic_arg, hic_calls>>
    /\ UNCHANGED <<speak_log, shared_fields, fixed_fields>>

\* line 163 reads is_tts_active_for_vcp_suppression; when it is not set
\* the iteration ends with lines 168-169, which write no field
Line163 ==
    /\ thread_pc["loop"] = "l163"
    /\ Goto("loop", IF /\ ENABLE_TTS /\ ENABLE_VOICE_COMMANDS
                       /\ is_tts_active_for_vcp_suppression
                    THEN "l164" ELSE "frame")
    /\ UNCHANGED <<hic_command, hic_arg, hic_calls, speak_log, loop_fields,
                   shared_fields, fixed_fields>>

\* line 164: busy is the answer of tts_manager.is_busy()
Line164(busy) ==
    /\ thread_pc["loop"] = "l164"
    /\ Goto("loop", IF busy THEN "frame" ELSE "l165")
    /\ UNCHANGED <<hic_command, hic_arg, hic_calls, speak_log, loop_fields,
                   shared_fields, fixed_fields>>

\* line 165, first statement: voice_command_processor.set_suppress(False)
Line165 ==
    /\ thread_pc["loop"] = "l165"
    /\ suppress_recognition' = FALSE
    /\ Goto("loop", "l165b")
    /\ UNCHANGED <<hic_command, hic_arg, hic_calls, speak_log, loop_fields,
                   last_dispatched_robot_command,
                   last_announced_command_for_tts,
                   is_tts_active_for_vcp_suppression, fixed_fields>>

\* line 165, second statement, then lines 168-169
Line165b ==
    /\ thread_pc["loop"] = "l165b"
    /\ is_tts_active_for_vcp_suppression' = FALSE
    /\ Goto("loop", "frame")
    /\ UNCHANGED <<hic_command, hic_arg, hic_calls, speak_log, loop_fields,
                   last_dispatched_robot_command,
                   last_announced_command_for_tts, suppress_recognition,
                   fixed_fields>>

\* _listen_and_process, lines 93-95: audio with a command in it was
\* captured and recognition is not suppressed (audio without a command
\* brings the thread back to line 53 and changes nothing)
ListenerHears ==
    /\ thread_pc["listener"] = "listen"
    /\ hic_calls < MaxHandle
    /\ ~ suppress_recognition
    /\ Goto("listener", "recognize")
    /\ UNCHANGED <<hic_command, hic_arg, hic_calls, speak_log, loop_fields,
                   shared_fields, fixed_fields>>

\* lines 96-108: the text is recognized and parsed to a command, and the
\* callback is called with it
ListenerCallback(command) ==
    /\ thread_pc["listener"] = "recognize"
    /\ hic_calls < MaxHandle
    /\ EnterCall("listener", command)
    /\ UNCHANGED <<speak_log, loop_fields, shared_fields, fixed_fields>>

CallStep(t) ==
    \/ Line108(t) \/ Line109(t) \/ Line114(t) \/ Line118(t)
    \/ Line119(t) \/ Line120(t) \/ Line121(t) \/ Line122(t)

LoopStep ==
    \/ \E current_gesture \in FrameGestures : FrameStart(current_gesture)
    \/ CallStep("loop")
    \/ Line163
    \/ \E busy \in BOOLEAN : Line164(busy)
    \/ Line165
    \/ Line165b

ListenerStep ==
    \/ ListenerHears
    \/ \E command \in VoiceCommands : ListenerCallback(command)
    \/ CallStep("listener")

\* the state after MainApplication.__init__ and start_listening
InitThreads ==
    /\ config_source = [kind |-> "json", json |-> ThreadActions]
    /\ mapper_state = "built"
    /\ gesture_actions = load_config(config_source).actions
    /\ lookup_key = "none"
    /\ lookup_result = NoResult
    /\ loop_pc = "loop"
    /\ current_potential_gesture_key = "NO_HAND"
    /\ gesture_stability_count = 0
    /\ last_confirmed_gesture_key = "NO_HAND"
    /\ last_dispatched_robot_command = "STOP"
    /\ last_announced_command_for_tts = "INIT_TTS"
    /\ is_tts_active_for_vcp_suppression = FALSE
    /\ suppress_recognition = FALSE
    /\ tts_phrases = SamplePhrases
    /\ frame_log = <<>>
    /\ confirm_log = <<>>
    /\ IdleClassifier
    /\ IdleSender
    /\ IdleThreads
    /\ IdleTTS
    /\ Listening

NextThreads == LoopStep \/ ListenerStep

SpecThreads == InitThreads /\ [][NextThreads]_vars


(***************************************************************************)
(* handle_incoming_command called directly, one call at a time, with any   *)
(* command and either source.                                              *)
(***************************************************************************)
Sentinels == {None, "UNKNOWN_COMMAND", "NO_ACTION"}

HandleCommands == VoiceCommands \cup Sentinels

\* handle_incoming_command(command, source_type_of(t)) is called while no
\* other call is in progress
DirectCall(t, command) ==
    /\ \A u \in Threads : ~ InCall(u)
    /\ hic_calls < MaxHandle
    /\ EnterCall(t, command)
    /\ UNCHANGED <<speak_log, loop_fields, shared_fields, fixed_fields>>

NextHandle ==
    \/ \E t \in Threads : \E command \in HandleCommands :
         DirectCall(t, command)
    \/ \E t \in Threads : CallStep(t)

SpecHandle == InitThreads /\ [][NextHandle]_vars

\* thread t makes a step of a handle_incoming_command call: it enters the
\* call or executes one of its lines
CallStepOf(t) ==
    /\ thread_pc'[t] # thread_pc[t]
    /\ InCall(t) \/ hic_calls' # hic_calls

\* C21 as stated: a call handle_incoming_command(c, source) with c in
\* {None, UNKNOWN_COMMAND, NO_ACTION} leaves last_dispatched_robot_command
\* and last_announced_command_for_tts unchanged and triggers no TTS.
C21_SentinelsChangeNothing ==
    [][\A t \in Threads :
         (CallStepOf(t) /\ hic_arg'[t] \in Sentinels) =>
             UNCHANGED <<last_dispatched_robot_command,
                         last_announced_command_for_tts, speak_log>>]_vars

\* C21 amended: a call with None or UNKNOWN_COMMAND returns at once and
\* changes nothing.  A call with NO_ACTION returns without a change when
\* the last dispatched command is STOP; otherwise it goes on as a call
\* with STOP: nothing but STOP is spoken, announced or dispatched, and
\* STOP is dispatched.
C21_SentinelsDispatchAtMostStop ==
    [][\A t \in Threads :
         (CallStepOf(t) /\ hic_arg'[t] \in Sentinels) =>
             IF hic_arg'[t] # "NO_ACTION"
             THEN /\ thread_pc'[t] = ReturnPc(t)
                  /\ UNCHANGED <<shared_fields, speak_log>>
             ELSE /\ last_dispatched_robot_command' \in
                       {last_dispatched_robot_command, "STOP"}
                  /\ last_announced_command_for_tts' \in
                       {last_announced_command_for_tts, "STOP"}
                  /\ speak_log' \in {speak_log, Append(speak_log, "STOP")}
                  /\ thread_pc[t] = "l109" =>
                       IF last_dispatched_robot_command = "STOP"
                       THEN thread_pc'[t] = ReturnPc(t)
                       ELSE /\ hic_command'[t] = "STOP"
                            /\ thread_pc'[t] = "l114"
                  /\ thread_pc[t] = "l122" =>
                       last_dispatched_robot_command' = "STOP"]_vars

\* a NO_ACTION from the voice source was announced and dispatched as STOP
\* after GO_FORWARD
C21_Witness ==
    /\ hic_arg["listener"] = "NO_ACTION"
    /\ thread_pc["listener"] = "listen"
    /\ speak_log = <<"GO_FORWARD", "STOP">>
    /\ last_dispatched_robot_command = "STOP"
    /\ last_announced_command_for_tts = "STOP"


(***************************************************************************)
(* Properties of the two threads (checked under SpecThreads).              *)
(***************************************************************************)
\* C22: the control-loop thread and the voice listener thread are never
\* both inside handle_incoming_command's compare-and-update of the last
\* dispatched and last announced command.
C22_CallsSerialized == ~ (InCall("loop") /\ InCall("listener"))

\* C26: the last dispatched command is never NO_ACTION, UNKNOWN_COMMAND or
\* None, whatever the interleaving of gesture confirmations and voice
\* commands, so line 169 never hands one of them to CommandSender.send.
C26_NoSentinelDispatched == last_dispatched_robot_command \notin Sentinels

\* the loop thread is about to dispatch the STOP that replaced a NO_ACTION
\* while the listener thread is inside its own call
C26_Witness ==
    /\ hic_arg["loop"] = "NO_ACTION"
    /\ thread_pc["loop"] = "l122"
    /\ InCall("listener")

\* C27: the control-loop thread changes the last dispatched command only
\* during a frame that confirmed a gesture; a frame that shows the gesture
\* already confirmed makes no confirmation and no call, also when a voice
\* command has changed the dispatched command in between.
C27_GestureDispatchOnConfirmationOnly ==
    [][thread_pc'["loop"] # thread_pc["loop"] =>
         /\ last_dispatched_robot_command' # last_dispatched_robot_command =>
              frame_confirmed /\ thread_pc["loop"] = "l122"
         /\ (/\ thread_pc["loop"] = "frame"
             /\ current_potential_gesture_key' = last_confirmed_gesture_key) =>
              /\ ~ frame_confirmed'
              /\ thread_pc'["loop"] = "l163"
              /\ UNCHANGED <<hic_calls, last_dispatched_robot_command>>]_vars

\* POINT_UP was confirmed and announced, a voice command then dispatched
\* TURN_LEFT, and a fourth POINT_UP frame has left it in place
C27_Witness ==
    /\ last_confirmed_gesture_key = "POINT_UP"
    /\ gesture_stability_count = 4
    /\ ~ frame_confirmed
    /\ speak_log = <<"GO_FORWARD", "TURN_LEFT">>
    /\ last_dispatched_robot_command = "TURN_LEFT"
    /\ \A t \in Threads : ~ InCall(t)

\* C29: whenever no handle_incoming_command call is in progress, either
\* no command has been accepted yet (dispatched STOP, announced INIT_TTS)
\* or the last announced command is the last dispatched command.
C29_AnnouncedIsDispatched ==
    (\A t \in Threads : ~ InCall(t)) =>
        \/ /\ last_dispatched_robot_command = "STOP"
           /\ last_announced_command_for_tts = "INIT_TTS"
        \/ last_announced_command_for_tts = last_dispatched_robot_command


(***************************************************************************)
(* TTSManager (tts_manager.py).  speak, is_busy and the statements of the  *)
(* worker under "with self.queue_lock" are atomic; a worker is a thread    *)
(* running _process_queue_say, and its pc names the line it is about to    *)
(* execute ("exit": the function is returning, "dead": is_alive() is       *)
(* False).  A worker whose pc is l59 or l61 has a `say` process running.   *)
(***************************************************************************)
MaxSpeaks == 3      \* phrases appended to the queue
MaxStops == 1       \* stop() calls followed

TtsPhrases == {"STOP", "GO_FORWARD"}

other_than_tts == <<classifier_vars, mapper_vars, app_vars, sender_vars,
                    thread_vars, vcp_vars>>

Workers == 1..Len(tts_workers)

NewWorker == [pc |-> "start", phrase |-> None]

\* a speak that never finds the old thread alive
speak_thread_is_alive_never(workers) == FALSE

\* speak, line 95: self.speak_thread is not None and is_alive()
speak_thread_is_alive(workers) ==
    Len(workers) > 0 /\ workers[Len(workers)].pc # "dead"

\* TTSManager.speak(phrase), lines 83-109, all under queue_lock.  recent:
\* the last queued phrase was queued less than debounce_interval ago;
\* joined: the old thread ended within the 0.5 s of line 101, which it can
\* only when it is returning (every other line before the return needs
\* queue_lock or sees the stop event that line 100 has set)
speak(phrase, recent, joined) ==
    /\ ~ (phrase = last_spoken_phrase /\ recent)
    /\ tts_queue' = Append(tts_queue, phrase)
    /\ last_spoken_phrase' = phrase
    /\ tts_appended' = Append(tts_appended, phrase)
    /\ IF processing_thread_is_active
       THEN UNCHANGED <<stop_thread_event, tts_workers>>
       ELSE IF speak_thread_is_alive(tts_workers)
       THEN IF tts_workers[Len(tts_workers)].pc = "exit" /\ joined
            THEN /\ stop_thread_event' = FALSE
                 /\ tts_workers' =
                      Append([tts_workers EXCEPT ![Len(tts_workers)].pc =
                                                   "dead"], NewWorker)
            ELSE /\ stop_thread_event' = TRUE
                 /\ UNCHANGED tts_workers
       ELSE /\ stop_thread_event' = FALSE
            /\ tts_workers' = Append(tts_workers, NewWorker)
    /\ UNCHANGED <<processing_thread_is_active, current_speak_process,
                   stop_pc, tts_said, tts_stops>>

\* TTSManager.is_busy, lines 112-123
is_busy ==
    \/ Len(tts_queue) > 0
    \/ /\ current_speak_process # 0
       /\ tts_workers[current_speak_process].pc = "l61"
    \/ processing_thread_is_active

Speak(phrase, recent, joined) ==
    /\ Len(tts_appended) < MaxSpeaks
    /\ speak(phrase, recent, joined)
    /\ UNCHANGED other_than_tts

WorkerGoto(w, line) ==
    tts_workers' = [tts_workers EXCEPT ![w].pc = line]

\* line 37: _mark_processing_thread_status(True)
Worker37(w) ==
    /\ tts_workers[w].pc = "start"
    /\ processing_thread_is_active' = TRUE
    /\ WorkerGoto(w, "l40")
    /\ UNCHANGED <<tts_queue, stop_thread_event, current_speak_process,
                   last_spoken_phrase, stop_pc, tts_appended, tts_said,
                   tts_stops>>
    /\ UNCHANGED other_than_tts

\* line 40: the test of the while loop
Worker40(w) ==
    /\ tts_workers[w].pc = "l40"
    /\ WorkerGoto(w, IF stop_thread_event THEN "l76" ELSE "l42")
    /\ UNCHANGED <<tts_queue, processing_thread_is_active, stop_thread_event,
                   current_speak_process, last_spoken_phrase, stop_pc,
                   tts_appended, tts_said, tts_stops>>
    /\ UNCHANGED other_than_tts

\* lines 42-50: pop a phrase, or leave the loop on an empty queue
Worker42(w) ==
    /\ tts_workers[w].pc = "l42"
    /\ IF tts_queue # <<>>
       THEN /\ tts_queue' = Tail(tts_queue)
            /\ tts_workers' = [tts_workers EXCEPT
                                 ![w] = [pc |-> "l58",
                                         phrase |-> Head(tts_queue)]]
       ELSE /\ WorkerGoto(w, IF ~ stop_thread_event THEN "l76" ELSE "l40")
            /\ UNCHANGED tts_queue
    /\ UNCHANGED <<processing_thread_is_active, stop_thread_event,
                   current_speak_process, last_spoken_phrase, stop_pc,
                   tts_appended, tts_said, tts_stops>>
    /\ UNCHANGED other_than_tts

\* lines 53-58: subprocess.Popen(["say", ...])
Worker58(w) ==
    /\ tts_workers[w].pc = "l58"
    /\ tts_said' = Append(tts_said, tts_workers[w].phrase)
    /\ WorkerGoto(w, "l59")
    /\ UNCHANGED <<tts_queue, processing_thread_is_active, stop_thread_event,
                   current_speak_process, last_spoken_phrase, stop_pc,
                   tts_appended, tts_stops>>
    /\ UNCHANGED other_than_tts

\* line 59
Worker59(w) ==
    /\ tts_workers[w].pc = "l59"
    /\ current_speak_process' = w
    /\ WorkerGoto(w, "l61")
    /\ UNCHANGED <<tts_queue, processing_thread_is_active, stop_thread_event,
                   last_spoken_phrase, stop_pc, tts_appended, tts_said,
                   tts_stops>>
    /\ UNCHANGED other_than_tts

\* line 61: the `say` process ends (by itself or terminated by stop) and
\* wait() returns
Worker61(w) ==
    /\ tts_workers[w].pc = "l61"
    /\ WorkerGoto(w, "l70")
    /\ UNCHANGED <<tts_queue, processing_thread_is_active, stop_thread_event,
                   current_speak_process, last_spoken_phrase, stop_pc,
                   tts_appended, tts_said, tts_stops>>
    /\ UNCHANGED other_than_tts

\* lines 69-72
Worker70(w) ==
    /\ tts_workers[w].pc = "l70"
    /\ current_speak_process' =
         IF current_speak_process = w THEN 0 ELSE current_speak_process
    /\ tts_workers' = [tts_workers EXCEPT ![w] = [pc |-> "l40",
                                                  phrase |-> None]]
    /\ UNCHANGED <<tts_queue, processing_thread_is_active, stop_thread_event,
                   last_spoken_phrase, stop_pc, tts_appended, tts_said,
                   tts_stops>>
    /\ UNCHANGED other_than_tts

\* lines 75-76: _mark_processing_thread_status(False)
Worker76(w) ==
    /\ tts_workers[w].pc = "l76"
    /\ processing_thread_is_active' = FALSE
    /\ current_speak_process' = 0
    /\ WorkerGoto(w, "exit")
    /\ UNCHANGED <<tts_queue, stop_thread_event, last_spoken_phrase, stop_pc,
                   tts_appended, tts_said, tts_stops>>
    /\ UNCHANGED other_than_tts

\* the thread function has returned
WorkerExit(w) ==
    /\ tts_workers[w].pc = "exit"
    /\ WorkerGoto(w, "dead")
    /\ UNCHANGED <<tts_queue, processing_thread_is_active, stop_thread_event,
                   current_speak_process, last_spoken_phrase, stop_pc,
                   tts_appended, tts_said, tts_stops>>
    /\ UNCHANGED other_than_tts

WorkerStep(w) ==
    \/ Worker37(w) \/ Worker40(w) \/ Worker42(w) \/ Worker58(w)
    \/ Worker59(w) \/ Worker61(w) \/ Worker70(w) \/ Worker76(w)
    \/ WorkerExit(w)

\* TTSManager.stop, line 127
Stop127 ==
    /\ stop_pc = "idle"
    /\ tts_stops < MaxStops
    /\ stop_thread_event' = TRUE
    /\ stop_pc' = "l130"
    /\ tts_stops' = tts_stops + 1
    /\ UNCHANGED <<tts_queue, processing_thread_is_active, tts_workers,
                   current_speak_process, last_spoken_phrase, tts_appended,
                   tts_said>>
    /\ UNCHANGED other_than_tts

\* lines 130-139; the process taken at line 132 is terminated, which the
\* worker sees as the end of its wait()
Stop130 ==
    /\ stop_pc = "l130"
    /\ tts_queue' = <<>>
    /\ current_speak_process' = 0
    /\ stop_pc' = "idle"
    /\ UNCHANGED <<processing_thread_is_active, stop_thread_event,
                   tts_workers, last_spoken_phrase, tts_appended, tts_said,
                   tts_stops>>
    /\ UNCHANGED other_than_tts

InitTTS ==
    /\ IdleTTS
    /\ IdleListen
    /\ IdleClassifier
    /\ IdleMapper
    /\ IdleApp
    /\ IdleSender
    /\ IdleThreads

NextTTS ==
    \/ \E phrase \in TtsPhrases : \E recent, joined \in BOOLEAN :
         Speak(phrase, recent, joined)
    \/ \E w \in Workers : Worker37(w)
    \/ \E w \in Workers : Worker40(w)
    \/ \E w \in Workers : Worker42(w)
    \/ \E w \in Workers : Worker58(w)
    \/ \E w \in Workers : Worker59(w)
    \/ \E w \in Workers : Worker61(w)
    \/ \E w \in Workers : Worker70(w)
    \/ \E w \in Workers : Worker76(w)
    \/ \E w \in Workers : WorkerExit(w)
    \/ Stop127
    \/ Stop130

SpecTTS == InitTTS /\ [][NextTTS]_vars

WorkersInLoop ==
    {w \in Workers :
        tts_workers[w].pc \in {"l40", "l42", "l58", "l59", "l61", "l70"}}

SayRunning == {w \in Workers : tts_workers[w].pc \in {"l59", "l61"}}

\* no worker will pop a phrase any more
WorkersDone ==
    \A w \in Workers : tts_workers[w].pc \in {"l76", "exit", "dead"}

\* C31: with stop() never called, every phrase appended to the queue is
\* popped and spoken by a worker without a later speak() call: when every
\* worker has left the queue-processing loop, the queue is empty (and
\* is_busy() gets False).
C31_NoPhraseLeftBehind ==
    (tts_stops = 0 /\ WorkersDone) => tts_queue = <<>>

\* said is appended with some phrases left out
IsSubsequence(said, appended) ==
    \E f \in [1..Len(said) -> 1..Len(appended)] :
        /\ \A i \in 1..Len(said) : said[i] = appended[f[i]]
        /\ \A i, j \in 1..Len(said) : i < j => f[i] < f[j]

\* C32: at most one worker executes the queue-processing loop and at most
\* one `say` process runs at any time, and the phrases are spoken in the
\* order in which speak() queued them, whatever the interleaving of
\* speak(), stop() and the workers.
C32_OneWorkerInOrder ==
    /\ Cardinality(WorkersInLoop) <= 1
    /\ Cardinality(SayRunning) <= 1
    /\ IsSubsequence(tts_said, tts_appended)
    /\ tts_stops = 0 =>
         /\ Len(tts_said) <= Len(tts_appended)
         /\ tts_said = SubSeq(tts_appended, 1, Len(tts_said))

\* two workers, one after the other, have spoken two different phrases in
\* the order of their speak() calls, and stop() was called
C32_Witness ==
    /\ Len(tts_workers) = 2
    /\ tts_said = <<"GO_FORWARD", "STOP">>
    /\ tts_appended = <<"GO_FORWARD", "STOP">>
    /\ tts_stops = 1


(***************************************************************************)
(* The two threads of SpecThreads together with the TTSManager: line 120   *)
(* calls the speak of the TTSManager section, line 164 reads its is_busy,  *)
(* and the workers that speak starts run between the steps of the two      *)
(* threads.  stop() is only called by cleanup, after the loop.             *)
(***************************************************************************)
SuppressGestures == {"NO_HAND", "POINT_UP"}

SuppressVoiceCommands == {"STOP", "GO_FORWARD"}

\* line 120 with the TTSManager followed: speak returns at line 87 when the
\* phrase is debounced
Line120Speak(t, recent, joined) ==
    /\ thread_pc[t] = "l120"
    /\ speak_log' = Append(speak_log, hic_command[t])
    /\ Goto(t, "l121")
    /\ IF hic_command[t] = last_spoken_phrase /\ recent
       THEN UNCHANGED tts_vars
       ELSE speak(hic_command[t], recent, joined)
    /\ UNCHANGED <<hic_command, hic_arg, hic_calls, loop_fields,
                   shared_fields, fixed_app_fields>>

\* line 164 with the TTSManager followed
Line164IsBusy ==
    /\ thread_pc["loop"] = "l164"
    /\ Goto("loop", IF is_busy THEN "frame" ELSE "l165")
    /\ UNCHANGED <<hic_command, hic_arg, hic_calls, speak_log, loop_fields,
                   shared_fields, fixed_fields>>

CallStepSpeak(t) ==
    \/ Line108(t) \/ Line109(t) \/ Line114(t) \/ Line118(t)
    \/ Line119(t)
    \/ \E recent, joined \in BOOLEAN : Line120Speak(t, recent, joined)
    \/ Line121(t) \/ Line122(t)

NextSuppress ==
    \/ \E current_gesture \in SuppressGestures : FrameStart(current_gesture)
    \/ CallStepSpeak("loop")
    \/ Line163
    \/ Line164IsBusy
    \/ Line165
    \/ Line165b
    \/ ListenerHears
    \/ \E command \in SuppressVoiceCommands : ListenerCallback(command)
    \/ CallStepSpeak("listener")
    \/ \E w \in Workers : WorkerStep(w)

SpecSuppress == InitThreads /\ [][NextSuppress]_vars

\* a phrase is waiting in the queue or is being spoken
PhrasePending ==
    \/ tts_queue # <<>>
    \/ \E w \in Workers : tts_workers[w].pc \in {"l58", "l59", "l61"}

\* C33: while a phrase queued by handle_incoming_command is waiting in the
\* TTS queue or being spoken, suppress_recognition is true, whatever the
\* interleaving of the control loop's release check (lines 163-165) with
\* the calls of handle_incoming_command from the listener thread.
C33_SuppressedWhilePending == PhrasePending => suppress_recognition

\* a thread has run set_suppress(True) at line 118 and not yet line 119
BetweenSuppressAndFlag == \E t \in Threads : thread_pc[t] = "l119"

\* C34: suppression that handle_incoming_command turned on is lifted by the
\* control loop: suppress_recognition is never left true with
\* is_tts_active_for_vcp_suppression false, the state in which line 163
\* keeps the loop from ever calling set_suppress(False).
C34_SuppressionCanBeLifted ==
    suppress_recognition =>
        (is_tts_active_for_vcp_suppression \/ BetweenSuppressAndFlag)

(***************************************************************************)
(* VoiceCommandProcessor: start_listening and stop_listening, called one   *)
(* at a time, and the threads running _listen_and_process.  A thread is    *)
(* "l53" or "l89" when it is about to read is_listening at that line,      *)
(* "listen" in lines 54-87 (blocked in listen()), "process" in lines       *)
(* 92-123 (recognition and callback), "exit" when it has left the loop and *)
(* is returning, and "dead" when is_alive() is False.  A failing           *)
(* microphone initialization (line 162) returns without changing anything. *)
(***************************************************************************)
MaxStarts == 3      \* start_listening calls that reach line 166

other_than_vcp == <<classifier_vars, mapper_vars, sender_vars, thread_vars,
                    tts_vars>>

app_fields_but_suppress ==
    <<loop_pc, current_potential_gesture_key, gesture_stability_count,
      last_confirmed_gesture_key, last_dispatched_robot_command,
      last_announced_command_for_tts, is_tts_active_for_vcp_suppression,
      tts_phrases, frame_log, confirm_log>>

ListenThreads == 1..Len(listen_threads)

\* self.listen_thread is not None and self.listen_thread.is_alive()
listen_thread_is_alive(threads) ==
    Len(threads) > 0 /\ threads[Len(threads)] # "dead"

\* start_listening, lines 158-164
Start158 ==
    /\ vcp_pc = "idle"
    /\ ~ is_listening
    /\ start_returns < MaxStarts
    /\ vcp_pc' = "l166"
    /\ UNCHANGED <<is_listening, listen_threads, start_returns, app_vars,
                   other_than_vcp>>

\* line 166
Start166 ==
    /\ vcp_pc = "l166"
    /\ is_listening' = TRUE
    /\ vcp_pc' = "l167"
    /\ UNCHANGED <<listen_threads, start_returns, app_vars, other_than_vcp>>

\* line 167: set_suppress(False)
Start167 ==
    /\ vcp_pc = "l167"
    /\ suppress_recognition' = FALSE
    /\ vcp_pc' = "l169"
    /\ UNCHANGED <<is_listening, listen_threads, start_returns,
                   app_fields_but_suppress, other_than_vcp>>

\* lines 169-175: a thread is created unless the old one is alive
Start169 ==
    /\ vcp_pc = "l169"
    /\ listen_threads' = IF listen_thread_is_alive(listen_threads)
                         THEN listen_threads
                         ELSE Append(listen_threads, "l53")
    /\ start_returns' = start_returns + 1
    /\ vcp_pc' = "idle"
    /\ UNCHANGED <<is_listening, app_vars, other_than_vcp>>

\* stop_listening, lines 187-191
Stop187 ==
    /\ vcp_pc = "idle"
    /\ is_listening \/ listen_thread_is_alive(listen_threads)
    /\ is_listening' = FALSE
    /\ vcp_pc' = IF listen_thread_is_alive(listen_threads)
                 THEN "l192" ELSE "idle"
    /\ UNCHANGED <<listen_threads, start_returns, app_vars, other_than_vcp>>

\* lines 192-195: join returns because the thread has ended, or after 2 s
\* with the thread still in one of its blocking calls
Stop192 ==
    /\ vcp_pc = "l192"
    /\ listen_threads[Len(listen_threads)] \in {"dead", "listen", "process"}
    /\ vcp_pc' = "idle"
    /\ UNCHANGED <<is_listening, listen_threads, start_returns, app_vars,
                   other_than_vcp>>

ListenGoto(i, line) ==
    /\ listen_threads' = [listen_threads EXCEPT ![i] = line]
    /\ UNCHANGED <<is_listening, vcp_pc, start_returns, app_vars,
                   other_than_vcp>>

\* _listen_and_process, line 53: while self.is_listening
Listen53(i) ==
    /\ listen_threads[i] = "l53"
    /\ ListenGoto(i, IF is_listening THEN "listen" ELSE "exit")

\* lines 54-87: listen() returns
Listen54(i) ==
    /\ listen_threads[i] = "listen"
    /\ ListenGoto(i, "l89")

\* lines 89-90: if not self.is_listening: break
Listen89(i) ==
    /\ listen_threads[i] = "l89"
    /\ ListenGoto(i, IF ~ is_listening THEN "exit" ELSE "process")

\* lines 92-123
Listen92(i) ==
    /\ listen_threads[i] = "process"
    /\ ListenGoto(i, "l53")

\* the thread function has returned
ListenExit(i) ==
    /\ listen_threads[i] = "exit"
    /\ ListenGoto(i, "dead")

InitListen ==
    /\ IdleListen
    /\ IdleClassifier
    /\ IdleMapper
    /\ IdleApp
    /\ IdleSender
    /\ IdleThreads
    /\ IdleTTS

NextListen ==
    \/ Start158
    \/ Start166
    \/ Start167
    \/ Start169
    \/ Stop187
    \/ Stop192
    \/ \E i \in ListenThreads : Listen53(i)
    \/ \E i \in ListenThreads : Listen54(i)
    \/ \E i \in ListenThreads : Listen89(i)
    \/ \E i \in ListenThreads : Listen92(i)
    \/ \E i \in ListenThreads : ListenExit(i)

SpecListen == InitListen /\ [][NextListen]_vars

\* C36: whenever start_listening has returned with is_listening true,
\* exactly one listener thread is alive and it is executing the listen
\* loop, for every sequence of start_listening and stop_listening calls,
\* a stop whose join times out included.
C36_OneListenerLooping ==
    (vcp_pc = "idle" /\ is_listening) =>
        /\ Cardinality({i \in ListenThreads :
                          listen_threads[i] # "dead"}) = 1
        /\ Cardinality({i \in ListenThreads :
                          listen_threads[i] \in
                            {"l53", "listen", "l89", "process"}}) = 1

\* C35: the listener thread never invokes the command callback (line 108
\* of _listen_and_process) in a state in which suppress_recognition is
\* true (checked under SpecThreads).
C35_NoCallbackWhileSuppressed ==
    [][(thread_pc["listener"] = "recognize" /\ InCall("listener")')
          => ~ suppress_recognition]_vars

(***************************************************************************)
(* Properties of the stabilizer (checked under Spec).                      *)
(***************************************************************************)
FrameTaken == frame_log' # frame_log

ThresholdCrossed ==
    /\ gesture_stability_count' >= 3
    /\ current_potential_gesture_key' # last_confirmed_gesture_key

ConfirmationMade ==
    /\ last_confirmed_gesture_key' = current_potential_gesture_key'
    /\ last_confirmed_gesture_key' # last_confirmed_gesture_key
    /\ Len(confirm_log') = Len(confirm_log) + 1
    /\ confirm_log'[Len(confirm_log')].key = last_confirmed_gesture_key'
    /\ confirm_log'[Len(confirm_log')].frame = Len(frame_log')
    /\ lookup_key' = last_confirmed_gesture_key'

NoGestureDispatch ==
    /\ UNCHANGED <<last_confirmed_gesture_key, confirm_log, lookup_key,
                   lookup_result>>
    /\ UNCHANGED <<last_dispatched_robot_command,
                   last_announced_command_for_tts>>

\* C1: on every frame a confirmation (confirmed symbol overwritten and
\* get_command called with it) happens if and only if, after the run-length
\* update, the run length is at least 3 and the potential symbol differs
\* from the confirmed one; on every other frame the confirmed symbol is
\* unchanged and the gesture path makes no lookup or dispatch.
C1_ConfirmIffThreshold ==
    [][FrameTaken =>
         /\ ThresholdCrossed => ConfirmationMade
         /\ ~ ThresholdCrossed => NoGestureDispatch]_vars

C1_Witness ==
    /\ Len(confirm_log) = 1
    /\ confirm_log[1].frame = 3
    /\ Len(frame_log) = 5
    /\ gesture_stability_count = 5

ConfirmedKeysAndFrames ==
    [n \in 1..Len(confirm_log) |->
        <<confirm_log[n].frame, confirm_log[n].key>>]

IsAABBBB(log) ==
    /\ Len(log) = 6
    /\ log[1] = log[2]
    /\ log[3] # log[1]
    /\ \A n \in 4..6 : log[n] = log[3]

\* C2 as stated: the sequence [A, A, B, B, B, B] (A # B) emits exactly one
\* confirmation, for B, on the 4th frame, and none for A.
C2_OneConfirmationOnFrame4 ==
    IsAABBBB(frame_log) => ConfirmedKeysAndFrames = << <<4, frame_log[3]>> >>

\* C2 amended: the sequence [A, A, B, B, B, B] (A # B) emits exactly one
\* confirmation, for B, on the 5th frame (the 3rd consecutive B), and none
\* for A, when B is not NO_HAND; when B is NO_HAND, the symbol confirmed
\* initially, it emits none.
C2_OneConfirmationOnFrame5 ==
    IsAABBBB(frame_log) =>
        ConfirmedKeysAndFrames =
            (IF frame_log[3] = "NO_HAND" THEN << >>
             ELSE << <<5, frame_log[3]>> >>)

C2_Witness ==
    /\ IsAABBBB(frame_log)
    /\ frame_log[1] = "OPEN_PALM"
    /\ frame_log[3] = "POINT_UP"
    /\ Len(confirm_log) = 1

IsAAAA(log) ==
    /\ Len(log) = 4
    /\ \A n \in 2..4 : log[n] = log[1]

\* C3 as stated: for any symbol A, the sequence [A, A, A, A] fed to the
\* initial state emits exactly one confirmation for A, on the 3rd frame,
\* and none on the 4th.
C3_OneConfirmationOnFrame3 ==
    IsAAAA(frame_log) => ConfirmedKeysAndFrames = << <<3, frame_log[1]>> >>

\* C3 amended: for any symbol A other than NO_HAND the sequence
\* [A, A, A, A] fed to the initial state emits exactly one confirmation for
\* A, on the 3rd frame, and none on the 4th; for A = NO_HAND, which the
\* initial state holds as confirmed, it emits none.
C3_OneConfirmationUnlessNoHand ==
    /\ IsAAAA(frame_log) =>
         ConfirmedKeysAndFrames =
             (IF frame_log[1] = "NO_HAND" THEN << >>
              ELSE << <<3, frame_log[1]>> >>)
    /\ (Len(frame_log) = 3 /\ frame_log[1] = frame_log[2]
          /\ frame_log[2] = frame_log[3] /\ frame_log[1] # "NO_HAND") =>
         ConfirmedKeysAndFrames = << <<3, frame_log[1]>> >>

C3_Witness ==
    /\ frame_log = <<"THUMB_UP_RIGHT", "THUMB_UP_RIGHT", "THUMB_UP_RIGHT",
                     "THUMB_UP_RIGHT">>
    /\ Len(confirm_log) = 1
    /\ last_confirmed_gesture_key = "THUMB_UP_RIGHT"

\* the symbol confirmed before frame n
ConfirmedBefore(n) ==
    LET earlier == { m \in 1..Len(confirm_log) : confirm_log[m].frame < n }
    IN  IF earlier = {} THEN "NO_HAND"
        ELSE confirm_log[CHOOSE m \in earlier : \A o \in earlier : o <= m].key

NoHandCountsWithoutDetection ==
    /\ \A handedness \in {"Left", "Right", NoHandedness} :
         current_gesture_of(NoLandmarks, handedness) = "NO_HAND"
    /\ \A landmarks \in FramePoses :
         current_gesture_of(landmarks, NoHandedness) = "NO_HAND"

\* C4: NO_HAND is an ordinary symbol.  A frame without landmarks or without
\* handedness counts as NO_HAND; a NO_HAND frame resets the run, so a
\* gesture confirmed after it has been seen on three consecutive frames
\* since; three consecutive NO_HAND frames after a different confirmed
\* symbol produce a confirmation for NO_HAND, looked up by get_command.
C4_NoHandOrdinary ==
    /\ NoHandCountsWithoutDetection
    /\ \A m \in 1..Len(confirm_log) : \A n \in 1..Len(frame_log) :
         (/\ frame_log[n] = "NO_HAND"
          /\ confirm_log[m].key # "NO_HAND"
          /\ confirm_log[m].frame > n) =>
            /\ confirm_log[m].frame >= n + 3
            /\ \A j \in 0..2 :
                 frame_log[confirm_log[m].frame - j] = confirm_log[m].key
    /\ \A n \in 1..(Len(frame_log) - 2) :
         (/\ \A j \in 0..2 : frame_log[n + j] = "NO_HAND"
          /\ ConfirmedBefore(n) # "NO_HAND") =>
            \E m \in 1..Len(confirm_log) :
              /\ confirm_log[m].key = "NO_HAND"
              /\ confirm_log[m].frame \in n..(n + 2)
              /\ confirm_log[m].command =
                   [raised |-> FALSE,
                    value |-> IF "NO_HAND" \in DOMAIN gesture_actions.items
                              THEN gesture_actions.items["NO_HAND"]
                              ELSE "UNKNOWN_COMMAND"]

C4_Witness ==
    /\ frame_log = <<"OPEN_PALM", "OPEN_PALM", "OPEN_PALM",
                     "NO_HAND", "NO_HAND", "NO_HAND">>
    /\ Len(confirm_log) = 2
    /\ confirm_log[2].key = "NO_HAND"
    /\ confirm_log[2].frame = 6
    /\ last_confirmed_gesture_key = "NO_HAND"

\* the frames from frame k to the last one all show the same symbol
SameFrom(k) == \A n \in k..Len(frame_log) : frame_log[n] = frame_log[k]

\* C24: when every frame from frame k on is classified as the same symbol
\* s, then from the third such frame on the confirmed symbol is s, and no
\* confirmation is made after that third frame for as long as the frames
\* keep showing s.
C24_StableRunConfirmed ==
    \A k \in 1..(Len(frame_log) - 2) :
        SameFrom(k) =>
            /\ last_confirmed_gesture_key = frame_log[k]
            /\ \A m \in 1..Len(confirm_log) : confirm_log[m].frame <= k + 2

\* five frames of the unknown gesture after one POINT_UP frame: confirmed
\* on the third of them, nothing after
C24_Witness ==
    /\ frame_log = <<"POINT_UP", "UNKNOWN_GESTURE", "UNKNOWN_GESTURE",
                     "UNKNOWN_GESTURE", "UNKNOWN_GESTURE", "UNKNOWN_GESTURE">>
    /\ ConfirmedKeysAndFrames = << <<4, "UNKNOWN_GESTURE">> >>
    /\ last_confirmed_gesture_key = "UNKNOWN_GESTURE"

\* C25: at the end of every frame the run length is at least 1, and a run
\* length of at least 3 implies that the confirmed symbol is the potential
\* symbol.
C25_StabilizerInvariant ==
    Len(frame_log) >= 1 =>
        /\ gesture_stability_count >= 1
        /\ gesture_stability_count >= GESTURE_CONFIRM_FRAMES =>
             last_confirmed_gesture_key = current_potential_gesture_key

\* a run restarted at 1 by a change of gesture, after a confirmed one
C25_Witness ==
    /\ Len(frame_log) = 4
    /\ Len(confirm_log) = 1
    /\ gesture_stability_count = 1
    /\ last_confirmed_gesture_key # current_potential_gesture_key

\* C28: with the fallback mapping active (configuration file missing or
\* not valid JSON) and no voice command, the last dispatched command is
\* STOP in every state of the control loop.
C28_FallbackAlwaysStop ==
    config_source.kind \in {"absent", "invalid_json"} =>
        /\ gesture_actions = FallbackActions
        /\ last_dispatched_robot_command = "STOP"

\* two gestures confirmed under the fallback mapping
C28_Witness ==
    /\ config_source.kind = "invalid_json"
    /\ Len(confirm_log) = 2
    /\ confirm_log[2].command = [raised |-> FALSE, value |-> "UNKNOWN_COMMAND"]
    /\ last_dispatched_robot_command = "STOP"


====
